---- MODULE Spec2Model ----
(***************************************************************************)
(* DRI2 swap scheduling of the SNA backend (src/sna/sna_dri.c): frame      *)
(* events, the pending-flip slot, per-buffer throttle chains, vertical     *)
(* blank and page-flip completion handlers.                                *)
(*                                                                         *)
(* Pointers are identities: 0 is NULL/None, frame events, buffer objects   *)
(* (bo) and DRI2 buffers are numbered from 1.  A freed frame event keeps   *)
(* its identity (live = FALSE), so a dangling pointer stays visible.       *)
(* Every C function is an operator from a heap record S (the fields are    *)
(* the VARIABLES below) and its arguments to the heap it leaves behind;    *)
(* results of the collaborators (vblank ioctl, sna_page_flip, calloc,      *)
(* kgem) are inputs the actions draw with \E.                              *)
(***************************************************************************)
EXTENDS Integers, Sequences, FiniteSets, TLC

\* ---- bounds of the exploration
NumDrawables == 2
MaxReq == 2
MaxCrtc == 2
MaxEnv == 1
MscModulus == 65536

\* ---- enum frame_event_type
DRI2_SWAP == "SWAP"
DRI2_SWAP_THROTTLE == "SWAP_THROTTLE"
DRI2_XCHG_THROTTLE == "XCHG_THROTTLE"
DRI2_FLIP == "FLIP"
DRI2_FLIP_THROTTLE == "FLIP_THROTTLE"
DRI2_WAITMSC == "WAITMSC"

\* ---- DRI2 completion kinds and attachments (dri2.h)
DRI2_EXCHANGE_COMPLETE == "EXCHANGE_COMPLETE"
DRI2_BLIT_COMPLETE == "BLIT_COMPLETE"
DRI2_FLIP_COMPLETE == "FLIP_COMPLETE"
DRI2BufferFrontLeft == "FrontLeft"
DRI2BufferBackLeft == "BackLeft"
DRAWABLE_WINDOW == "window"
DRAWABLE_PIXMAP == "pixmap"
I915_TILING_X == "X"
I915_TILING_Y == "Y"

VARIABLES
  sna,          \* [vtSema, no_flip, no_wait, shadow_active, front]: struct sna
  cfg,          \* drawable id -> DrawableRec/WindowRec geometry
  alive,        \* drawable id -> the drawable still exists (dixLookupDrawable)
  clients,      \* client id -> the client is still connected
  pix,          \* pixmap id -> [gpu_bo, width, height, screen_x, screen_y]
  bo,           \* bo id -> [refcnt, tiling]: struct kgem_bo
  buf,          \* DRI2Buffer id -> [name, attachment, format, refcnt, pixmap, bo, chain]
  ev,           \* frame event id -> struct sna_dri_frame_event
  flip_pending, \* sna->dri.flip_pending
  flipq,        \* page-flip completions not yet delivered, in order (tokens)
  vbl,          \* tokens of the armed vblank events: set of [info, seq]
  done,         \* DRI2SwapComplete calls so far, in order
  nreq,         \* number of sna_dri_schedule_swap calls so far
  call,         \* the last sna_dri_schedule_swap call and what it returned
  hist,         \* bookkeeping of the verification: per request and per event
  assert_ok,    \* FALSE once an assert() of the source was violated
  aborted,      \* the server died (assert in a debug build, NULL dereference)
  nenv,         \* reconfigurations and resource destructions so far
  xs            \* snapshot variable of the exchange specification

vars == <<sna, cfg, alive, clients, pix, bo, buf, ev, flip_pending, flipq, vbl, done,
          nreq, call, hist, assert_ok, aborted, nenv, xs>>

Drawables == 1..NumDrawables
SnaFront == 1
OwnPixmap(d) == d + 1
Front(d) == 2 * d - 1
Back(d) == 2 * d
ScreenBo == 1
OwnBo(d) == 2 * d
BackBo(d) == 2 * d + 1
ScreenW == 2
ScreenH == 2
RootWinSize == <<0, 0, ScreenW, ScreenH>>

\* The heap as one record, and the action that installs a heap.
Cur ==
  [sna |-> sna, cfg |-> cfg, alive |-> alive, pix |-> pix, bo |-> bo,
   buf |-> buf, ev |-> ev, flip_pending |-> flip_pending, flipq |-> flipq,
   vbl |-> vbl, done |-> done, hist |-> hist, assert_ok |-> assert_ok,
   aborted |-> aborted, call |-> call, clients |-> clients]

Install(S) ==
  /\ sna' = S.sna /\ cfg' = S.cfg /\ alive' = S.alive /\ pix' = S.pix
  /\ bo' = S.bo /\ buf' = S.buf /\ ev' = S.ev
  /\ flip_pending' = S.flip_pending /\ flipq' = S.flipq /\ vbl' = S.vbl
  /\ done' = S.done /\ hist' = S.hist /\ assert_ok' = S.assert_ok
  /\ aborted' = S.aborted /\ call' = S.call /\ clients' = S.clients

\* An assert() of the source: a debug build dies at the first violated one,
\* a build with NDEBUG carries on.
Commit(S) ==
  \/ Install(S)
  \/ /\ assert_ok /\ ~S.assert_ok
     /\ Install([Cur EXCEPT !.assert_ok = FALSE, !.aborted = TRUE])

Expect(S, cond) == IF cond THEN S ELSE [S EXCEPT !.assert_ok = FALSE]

\* ---- struct kgem_bo reference counting
ref(S, b) == [S EXCEPT !.bo[b].refcnt = @ + 1]

kgem_bo_destroy(S, b) == [S EXCEPT !.bo[b].refcnt = @ - 1]

\* kgem_create_2d: a fresh bo with one reference; kgem_bo_flink names a bo
\* by a number unique to it.
kgem_create_2d(S, tiling) ==
  [S EXCEPT !.bo = Append(@, [refcnt |-> 1, tiling |-> tiling])]

kgem_bo_flink(b) == b

get_drawable_pixmap(S, d) == S.cfg[d].pixmap

\* a variant that keeps the reference on the bo it replaces
set_bo_leak(S, pixmap, b) == [ref(S, b) EXCEPT !.pix[pixmap].gpu_bo = b]

set_bo(S, pixmap, b) ==
  LET S1 == kgem_bo_destroy(S, S.pix[pixmap].gpu_bo)
      S2 == ref(S1, b)
  IN [S2 EXCEPT !.pix[pixmap].gpu_bo = b]

\* a variant without the comparison of the clip list
can_flip_unclipped(S, d, front, back) ==
  LET draw == S.cfg[d]
      pixmap == S.cfg[d].pixmap
  IN /\ draw.type # DRAWABLE_PIXMAP
     /\ S.sna.vtSema /\ ~S.sna.no_flip /\ ~S.sna.shadow_active
     /\ S.buf[front].format = S.buf[back].format
     /\ S.buf[front].attachment = DRI2BufferFrontLeft
     /\ pixmap = S.sna.front
     /\ draw.x = 0 /\ draw.y = 0
     /\ draw.x = S.pix[pixmap].screen_x /\ draw.y = S.pix[pixmap].screen_y
     /\ draw.width = S.pix[pixmap].width
     /\ draw.height = S.pix[pixmap].height
     /\ S.bo[S.buf[front].bo].tiling = S.bo[S.buf[back].bo].tiling

can_flip(S, d, front, back) ==
  LET draw == S.cfg[d]
      pixmap == get_drawable_pixmap(S, d)
  IN IF draw.type = DRAWABLE_PIXMAP THEN FALSE
     ELSE IF ~S.sna.vtSema THEN FALSE
     ELSE IF S.sna.no_flip THEN FALSE
     ELSE IF S.buf[front].format # S.buf[back].format THEN FALSE
     ELSE IF S.buf[front].attachment # DRI2BufferFrontLeft THEN FALSE
     ELSE IF S.sna.shadow_active THEN FALSE
     ELSE IF pixmap # S.sna.front THEN FALSE
     ELSE IF draw.clipList # RootWinSize THEN FALSE
     ELSE IF \/ draw.x # 0 \/ draw.y # 0
             \/ draw.x # S.pix[pixmap].screen_x
             \/ draw.y # S.pix[pixmap].screen_y
             \/ draw.width # S.pix[pixmap].width
             \/ draw.height # S.pix[pixmap].height THEN FALSE
     ELSE IF S.bo[S.buf[front].bo].tiling # S.bo[S.buf[back].bo].tiling
          THEN FALSE
     ELSE TRUE

\* a variant that takes a reparented window for exchangeable
can_exchange_anysize(S, d, front, back) ==
  \/ S.cfg[d].type = DRAWABLE_PIXMAP
  \/ /\ S.buf[front].format = S.buf[back].format
     /\ S.cfg[d].pixmap # S.sna.front

can_exchange(S, d, front, back) ==
  LET draw == S.cfg[d]
      pixmap == draw.pixmap
  IN IF draw.type = DRAWABLE_PIXMAP THEN TRUE
     ELSE IF S.buf[front].format # S.buf[back].format THEN FALSE
     ELSE IF pixmap = S.sna.front THEN FALSE
     ELSE IF \/ S.pix[pixmap].width # draw.width
             \/ S.pix[pixmap].height # draw.height THEN FALSE
     ELSE TRUE

sna_dri_get_pipe(S, d) ==
  IF S.cfg[d].type = DRAWABLE_PIXMAP THEN -1 ELSE S.cfg[d].crtc

\* a variant that leaves the back handle on its storage
sna_dri_exchange_buffers_half(S, d, front, back) ==
  [set_bo(S, get_drawable_pixmap(S, d), S.buf[back].bo)
     EXCEPT !.buf[front].bo = S.buf[back].bo,
            !.buf[front].name = S.buf[back].name]

sna_dri_exchange_buffers(S, d, front, back) ==
  LET pixmap == get_drawable_pixmap(S, d)
      back_bo == S.buf[back].bo
      front_bo == S.buf[front].bo
      S1 == set_bo(S, pixmap, back_bo)
  IN [S1 EXCEPT !.buf[front].bo = back_bo,
                !.buf[back].bo = front_bo,
                !.buf[front].name = S.buf[back].name,
                !.buf[back].name = S.buf[front].name]

\* ---- frame events
NoBuf == [bo |-> 0, name |-> 0]

NewInfo(type, d, client, data, front, back, pipe) ==
  [live |-> TRUE, drawable_id |-> d, client |-> client, type |-> type,
   frame |-> 0, pipe |-> pipe, count |-> 0, event_data |-> data,
   front |-> front, back |-> back, bo |-> 0, chain |-> 0,
   old_front |-> NoBuf, next_front |-> NoBuf]

\* calloc + field setup + sna_dri_add_frame_event: the new event's identity
calloc(S, info) ==
  [S EXCEPT !.ev = Append(@, info),
            !.hist.submits = Append(@, 0),
            !.hist.flipevents = Append(@, 0)]

NewId(S) == Len(S.ev) + 1

dixLookupDrawable(S, id) == id # 0 /\ S.alive[id]

DRI2SwapComplete(S, client, d, type, func, data) ==
  [S EXCEPT !.done = Append(@, [client |-> client, draw |-> d, type |-> type,
                                func |-> func, data |-> data])]

\* DRI2WaitMSCComplete(client, draw, frame, tv_sec, tv_usec)
DRI2WaitMSCComplete(S, client, d, frame) ==
  [S EXCEPT !.done = Append(@, [client |-> client, draw |-> d, type |-> "MSC",
                                func |-> 0, data |-> 0, frame |-> frame])]

\* a variant that takes no reference
sna_dri_reference_buffer_none(S, b) == S

sna_dri_reference_buffer(S, b) == [S EXCEPT !.buf[b].refcnt = @ + 1]

\* A NULL bo reaching kgem_bo_destroy is a NULL dereference.
_sna_dri_destroy_buffer(S, b) ==
  IF b = 0 THEN S
  ELSE IF S.buf[b].refcnt - 1 = 0
       THEN IF S.buf[b].bo = 0
            THEN [S EXCEPT !.buf[b].refcnt = 0, !.aborted = TRUE]
            ELSE [kgem_bo_destroy(S, S.buf[b].bo) EXCEPT !.buf[b].refcnt = 0]
       ELSE [S EXCEPT !.buf[b].refcnt = @ - 1]

sna_dri_frame_event_release_bo(S, b) ==
  IF b # 0 THEN kgem_bo_destroy(S, b) ELSE S

\* a variant that keeps the references of the event on its buffers
sna_dri_frame_event_info_free_keep(S, e) == [S EXCEPT !.ev[e].live = FALSE]

sna_dri_frame_event_info_free(S, e) ==
  LET info == S.ev[e]
      S1 == _sna_dri_destroy_buffer(S, info.front)
      S2 == _sna_dri_destroy_buffer(S1, info.back)
      S3 == sna_dri_frame_event_release_bo(S2, info.old_front.bo)
      S4 == sna_dri_frame_event_release_bo(S3, info.next_front.bo)
  IN [S4 EXCEPT !.ev[e].live = FALSE]

\* sna_page_flip queues one completion per CRTC it flipped and returns their
\* number; the completions are delivered in submission order.
Tokens(e, count) == [i \in 1..count |-> e]

\* a variant that switches the front before it knows the flip was queued
sna_dri_page_flip_early(S, e, count) ==
  LET info == S.ev[e]
      b == S.buf[info.back].bo
      S1 == [S EXCEPT !.ev[e].count = count,
                      !.ev[e].old_front = [name |-> S.buf[info.front].name,
                                           bo |-> S.buf[info.front].bo],
                      !.flipq = @ \o Tokens(e, count),
                      !.hist.submits[e] = @ + (IF count = 0 THEN 0 ELSE 1)]
  IN [set_bo(S1, S.sna.front, b)
        EXCEPT !.buf[info.front].name = S.buf[info.back].name,
               !.buf[info.front].bo = b]

sna_dri_page_flip(S, e, count) ==
  LET info == S.ev[e]
      b == S.buf[info.back].bo
      S0 == [S EXCEPT !.ev[e].count = count]
  IN IF count = 0 THEN S0
     ELSE LET S1 == [S0 EXCEPT !.ev[e].old_front =
                        [name |-> S.buf[info.front].name,
                         bo |-> S.buf[info.front].bo],
                      !.flipq = @ \o Tokens(e, count),
                      !.hist.submits[e] = @ + 1]
              S2 == set_bo(S1, S.sna.front, b)
          IN [S2 EXCEPT !.buf[info.front].name = S.buf[info.back].name,
                        !.buf[info.front].bo = b]

\* sna_dri_copy_to_front with region == NULL: one copy on behalf of a
\* request; the returned bo (non-NULL only when the copy was synchronised to
\* the scanline and flushed) is the input "flush".
sna_dri_copy_to_front(S, data) ==
  [S EXCEPT !.hist.copies[data] = @ + 1]

\* ---- frame counter arithmetic.  The source truncates with & 0xffffffff and
\* computes in unsigned int; the model runs the same arithmetic modulo
\* MscModulus, a narrower counter that the model checker's integers can hold.
\* a variant that keeps the bits above the width of the counter
Mask32_wide(x) == x

Mask32(x) == x % MscModulus

\* sna_wait_vblank with DRM_VBLANK_EVENT, success: the token is armed.
\* a variant that asks for every vblank event at an absolute sequence
ArmVblank_absolute(S, e, type, sequence) ==
  [S EXCEPT !.vbl = @ \cup {[info |-> e, type |-> "ABSOLUTE", sequence |-> sequence]}]

ArmVblank(S, e, type, sequence) ==
  [S EXCEPT !.vbl = @ \cup {[info |-> e, type |-> type, sequence |-> sequence]}]

\* ---- sna_dri_schedule_flip.  "in" holds what the collaborators answer:
\*   fail   the one step that fails in this call ("none", "nomem": calloc,
\*          "nores": sna_dri_add_frame_event, "flip": sna_page_flip returns 0,
\*          "query"/"arm": the first/second sna_wait_vblank, "nobo":
\*          kgem_create_2d returns NULL)
\*   count  CRTCs flipped by a successful sna_page_flip
\*   cur    vbl.reply.sequence of the current-count query
\*   uaf    what a read through a dangling pointer yields
\*   flush  sna_dri_copy_to_front returned a request bo
Return(S, ret, target_msc) ==
  [S EXCEPT !.call.ret = ret, !.call.target_msc = target_msc]

\* drmVBlank is a union: vbl.reply.sequence and vbl.request.sequence are the
\* same unsigned int.
FlipSequence(cur, target, divisor, remainder) ==
  IF cur < target
  THEN [sequence |-> Mask32(target - 1), target_msc |-> target]
  ELSE LET s0 == Mask32(cur - (cur % divisor) + remainder)
           s1 == IF s0 <= cur THEN Mask32(s0 + divisor) ELSE s0
       IN [sequence |-> Mask32(s1 - 1), target_msc |-> Mask32(s1 + 1)]

\* a variant that never recognises the pending flip as the drawable's own
PendingIsFor_never(S, d, uaf) == FALSE

\* info = sna->dri.flip_pending; info && info->drawable_id == draw->id
PendingIsFor(S, d, uaf) ==
  LET pend == S.flip_pending
  IN IF pend = 0 THEN FALSE
     ELSE IF S.ev[pend].live THEN S.ev[pend].drawable_id = d
     ELSE uaf

\* a variant that refuses every flip
sna_dri_schedule_flip_refuse(S, client, d, front, back, target_msc, divisor0, remainder0, data, in) ==
  Return(S, FALSE, target_msc)

sna_dri_schedule_flip(S, client, d, front, back, target_msc, divisor0, remainder0, data, in) ==
  LET pipe == sna_dri_get_pipe(S, d)
      divisor == Mask32(divisor0)
      pend == S.flip_pending
      same == PendingIsFor(S, d, in.uaf)
      e == NewId(S)
  IN
  IF pipe = -1 THEN Return(S, FALSE, target_msc)
  ELSE IF divisor = 0 THEN
    IF pend # 0 /\ same
    THEN Return(IF S.ev[pend].live
                THEN [S EXCEPT !.ev[pend].next_front.name = 1] ELSE S,
                TRUE, target_msc)
    ELSE IF in.fail \in {"nomem", "nores"} THEN Return(S, FALSE, target_msc)
    ELSE
      LET type == IF pend # 0 THEN DRI2_FLIP ELSE DRI2_FLIP_THROTTLE
          S1 == calloc(S, NewInfo(type, d, client, data, front, back, pipe))
          S2 == sna_dri_reference_buffer(sna_dri_reference_buffer(S1, front), back)
          count == IF in.fail = "flip" THEN 0 ELSE in.count
          S3 == sna_dri_page_flip(S2, e, count)
      IN IF count = 0
         THEN Return(sna_dri_frame_event_info_free(S3, e), FALSE, target_msc)
         ELSE IF in.fail = "nobo"
         THEN Return([S3 EXCEPT !.buf[back].bo = 0, !.aborted = TRUE],
                     FALSE, target_msc)
         ELSE
           LET S4 == kgem_create_2d(S3, S3.bo[S3.buf[front].bo].tiling)
               nb == Len(S4.bo)
               S5 == [S4 EXCEPT !.buf[back].bo = nb,
                                !.buf[back].name = kgem_bo_flink(nb),
                                !.flip_pending = e]
           IN Return(DRI2SwapComplete(S5, client, d, DRI2_EXCHANGE_COMPLETE,
                                      data, data),
                     TRUE, target_msc)
  ELSE
    IF in.fail \in {"nomem", "nores"} THEN Return(S, FALSE, target_msc)
    ELSE
      LET S1 == calloc(S, NewInfo(DRI2_FLIP, d, client, data, front, back, pipe))
          S2 == sna_dri_reference_buffer(sna_dri_reference_buffer(S1, front), back)
          target == Mask32(target_msc)
          a == FlipSequence(in.cur, target, divisor, Mask32(remainder0))
      IN IF in.fail = "query"
         THEN Return(sna_dri_frame_event_info_free(S2, e), FALSE, target_msc)
         ELSE IF in.fail = "arm"
         THEN Return(sna_dri_frame_event_info_free(S2, e), FALSE, a.target_msc)
         ELSE Return([ArmVblank(S2, e, "ABSOLUTE", a.sequence)
                        EXCEPT !.ev[e].frame = a.target_msc],
                     TRUE, a.target_msc)

\* DRM_IOCTL_WAIT_VBLANK with DRM_VBLANK_EVENT answers the sequence the event
\* is queued for, or the current one when that has passed already.
Passed(cur, sequence) == Mask32(cur - sequence) <= MscModulus \div 512

DrmReply(cur, sequence, nextonmiss) ==
  LET s == IF nextonmiss /\ Passed(cur, sequence) THEN Mask32(cur + 1)
           ELSE sequence
  IN IF Passed(cur, s) THEN cur ELSE s

SwapSequence(cur, divisor, remainder) ==
  LET s0 == Mask32(cur - (cur % divisor) + remainder)
      s1 == IF s0 < cur THEN Mask32(s0 + divisor) ELSE s0
  IN Mask32(s1 - 1)

sna_dri_immediate_xchg(S, d, e, in) ==
  LET info == S.ev[e]
      front == info.front
      head == S.buf[front].chain
  IN
  IF ~S.sna.no_wait THEN
    LET S1 == [S EXCEPT !.ev[e].type = DRI2_XCHG_THROTTLE]
    IN IF head = 0 THEN
         LET S2 == sna_dri_exchange_buffers(S1, d, info.front, info.back)
             S3 == DRI2SwapComplete(S2, info.client, d, DRI2_EXCHANGE_COMPLETE,
                                    info.event_data, info.event_data)
         IN IF in.fail # "arm"
            THEN [ArmVblank(S3, e, "RELATIVE", 0) EXCEPT !.buf[front].chain = e]
            ELSE sna_dri_frame_event_info_free(S3, e)
       ELSE IF S.ev[head].live
            THEN [Expect(S1, S.ev[head].chain = 0) EXCEPT !.ev[head].chain = e]
            ELSE Expect(S1, in.uaf)
  ELSE
    LET S2 == sna_dri_exchange_buffers(S, d, info.front, info.back)
        S3 == DRI2SwapComplete(S2, info.client, d, DRI2_EXCHANGE_COMPLETE,
                               info.event_data, info.event_data)
    IN sna_dri_frame_event_info_free(S3, e)

sna_dri_immediate_blit(S, d, e, in) ==
  LET info == S.ev[e]
      front == info.front
      head == S.buf[front].chain
      flushed == IF in.flush THEN 1 ELSE 0
  IN
  IF ~S.sna.no_wait THEN
    LET S1 == [S EXCEPT !.ev[e].type = DRI2_SWAP_THROTTLE]
    IN IF head = 0 THEN
         LET S2 == [sna_dri_copy_to_front(S1, info.event_data)
                      EXCEPT !.ev[e].bo = flushed]
             S3 == DRI2SwapComplete(S2, info.client, d, DRI2_BLIT_COMPLETE,
                                    info.event_data, info.event_data)
         IN IF in.fail # "arm"
            THEN [ArmVblank(S3, e, "RELATIVE", 0) EXCEPT !.buf[front].chain = e]
            ELSE sna_dri_frame_event_info_free(S3, e)
       ELSE IF S.ev[head].live
            THEN [Expect(S1, S.ev[head].chain = 0) EXCEPT !.ev[head].chain = e]
            ELSE Expect(S1, in.uaf)
  ELSE
    LET S2 == [sna_dri_copy_to_front(S, info.event_data)
                 EXCEPT !.ev[e].bo = flushed]
        S3 == DRI2SwapComplete(S2, info.client, d, DRI2_BLIT_COMPLETE,
                               info.event_data, info.event_data)
    IN sna_dri_frame_event_info_free(S3, e)

\* a variant that forgets the frame event it holds
blit_fallback_leak(S, client, d, front, back, data, info) ==
  LET xchg == can_exchange(S, d, front, back)
      S1 == IF xchg THEN sna_dri_exchange_buffers(S, d, front, back)
            ELSE sna_dri_copy_to_front(S, data)
      S3 == DRI2SwapComplete(S1, client, d,
                             IF xchg THEN DRI2_EXCHANGE_COMPLETE
                             ELSE DRI2_BLIT_COMPLETE, data, data)
  IN Return([S3 EXCEPT !.call.fallback = TRUE], TRUE, 0)

\* the label blit_fallback of sna_dri_schedule_swap; info = 0 when no frame
\* event is held there
blit_fallback(S, client, d, front, back, data, info) ==
  LET xchg == can_exchange(S, d, front, back)
      S1 == IF xchg THEN sna_dri_exchange_buffers(S, d, front, back)
            ELSE sna_dri_copy_to_front(S, data)
      S2 == IF info # 0 THEN sna_dri_frame_event_info_free(S1, info) ELSE S1
      S3 == DRI2SwapComplete(S2, client, d,
                             IF xchg THEN DRI2_EXCHANGE_COMPLETE
                             ELSE DRI2_BLIT_COMPLETE, data, data)
  IN Return([S3 EXCEPT !.call.fallback = TRUE], TRUE, 0)

sna_dri_schedule_swap(S, client, d, front, back, target_msc, divisor0, remainder0, data, in) ==
  LET pipe == sna_dri_get_pipe(S, d)
      target == Mask32(target_msc)
      divisor == Mask32(divisor0)
      remainder == Mask32(remainder0)
      e == NewId(S)
  IN
  IF can_flip(S, d, front, back) THEN
    LET F == sna_dri_schedule_flip(S, client, d, front, back, target_msc,
                                   divisor0, remainder0, data, in)
    IN IF F.call.ret THEN F
       ELSE blit_fallback(F, client, d, front, back, data, 0)
  ELSE IF pipe = -1 THEN
    IF can_exchange(S, d, front, back)
    THEN Return(DRI2SwapComplete(sna_dri_exchange_buffers(S, d, front, back),
                                 client, d, DRI2_EXCHANGE_COMPLETE, data, data),
                TRUE, target_msc)
    ELSE blit_fallback(S, client, d, front, back, data, 0)
  ELSE IF in.fail \in {"nomem", "nores"}
  THEN blit_fallback(S, client, d, front, back, data, 0)
  ELSE
    LET S1 == calloc(S, NewInfo(DRI2_SWAP, d, client, data, front, back, pipe))
        S2 == sna_dri_reference_buffer(sna_dri_reference_buffer(S1, front), back)
    IN
    IF divisor = 0 THEN
      Return(IF can_exchange(S2, d, front, back)
             THEN sna_dri_immediate_xchg(S2, d, e, in)
             ELSE sna_dri_immediate_blit(S2, d, e, in),
             TRUE, target)
    ELSE IF in.fail = "query"
    THEN blit_fallback(S2, client, d, front, back, data, e)
    ELSE IF in.cur < target THEN
      LET S3 == [S2 EXCEPT !.ev[e].frame = target, !.ev[e].type = DRI2_SWAP]
      IN IF in.fail = "arm"
         THEN blit_fallback(S3, client, d, front, back, data, e)
         ELSE Return(ArmVblank(S3, e, "ABSOLUTE", target), TRUE, target)
    ELSE
      LET sequence == SwapSequence(in.cur, divisor, remainder)
          reply == DrmReply(in.cur, sequence, TRUE)
      IN IF in.fail = "arm"
         THEN blit_fallback(S2, client, d, front, back, data, e)
         ELSE Return([ArmVblank(S2, e, "ABSOLUTE", sequence)
                        EXCEPT !.ev[e].frame = reply],
                     TRUE, reply)

\* a variant that stays on the current frame when it fits the remainder
WaitSequence_late(cur, divisor, remainder) ==
  LET s0 == Mask32(cur - (cur % divisor) + remainder)
  IN IF (cur % divisor) > remainder THEN Mask32(s0 + divisor) ELSE s0

\* the sequence sna_dri_schedule_wait_msc asks for when the target has passed
WaitSequence(cur, divisor, remainder) ==
  LET s0 == Mask32(cur - (cur % divisor) + remainder)
  IN IF (cur % divisor) >= remainder THEN Mask32(s0 + divisor) ELSE s0

\* a variant that leaves the client blocked as well
out_complete_blocked(S, client, d, target_msc) ==
  Return([DRI2WaitMSCComplete(S, client, d, target_msc)
            EXCEPT !.call.blocked = TRUE],
         TRUE, target_msc)

\* the labels out_complete and out_free_info of sna_dri_schedule_wait_msc
out_complete(S, client, d, target_msc) ==
  Return(DRI2WaitMSCComplete(S, client, d, target_msc), TRUE, target_msc)

\* a variant that completes at once and keeps a reference on the front buffer
sna_dri_schedule_wait_msc_ref(S, client, d, target_msc, divisor0, remainder0, in) ==
  out_complete(sna_dri_reference_buffer(S, Front(d)), client, d,
               Mask32(target_msc))

\* in.fail: "query"/"arm" the first/second sna_wait_vblank, "nomem" calloc,
\* "nores" sna_dri_add_frame_event; in.cur: the answer of the counter query.
\* DRI2BlockClient is recorded in call.blocked.
sna_dri_schedule_wait_msc(S, client, d, target_msc, divisor0, remainder0, in) ==
  LET pipe == sna_dri_get_pipe(S, d)
      target == Mask32(target_msc)
      divisor == Mask32(divisor0)
      remainder == Mask32(remainder0)
      e == NewId(S)
  IN
  IF pipe = -1 THEN out_complete(S, client, d, target)
  ELSE IF in.fail = "query" THEN out_complete(S, client, d, target)
  ELSE IF divisor = 0 /\ in.cur >= target
  THEN out_complete(S, client, d, in.cur)
  ELSE IF in.fail \in {"nomem", "nores"}
  THEN out_complete(S, client, d, target)
  ELSE
    LET S1 == calloc(S, NewInfo(DRI2_WAITMSC, d, client, 0, 0, 0, 0))
        sequence == IF divisor = 0 \/ in.cur < target THEN target
                    ELSE WaitSequence(in.cur, divisor, remainder)
    IN IF in.fail = "arm"
       THEN out_complete(sna_dri_frame_event_info_free(S1, e), client, d,
                         target)
       ELSE Return([ArmVblank(S1, e, "ABSOLUTE", sequence)
                      EXCEPT !.ev[e].frame = DrmReply(in.cur, sequence, FALSE),
                             !.call.blocked = TRUE],
                   TRUE, target)

\* ---- completion handlers.  Inputs of sna_dri_vblank_handler: count (what
\* sna_page_flip returns), busy (kgem_bo_is_busy after kgem_retire), rearm
\* and arm (the re-arming sna_wait_vblank of the postponement / of chain_swap
\* succeeds), flush (as above).
\* a variant that hands the callback over whatever the client
NullFunc_always(info) == info.event_data

\* info->client ? info->event_complete : NULL
NullFunc(info) == IF info.client # 0 THEN info.event_data ELSE 0

\* a variant that frees the successor it has armed
chain_swap_free(S, draw, chain, in) ==
  sna_dri_frame_event_info_free(ArmVblank(S, chain, "RELATIVE", 0), chain)

chain_swap(S, draw, chain, in) ==
  LET c == S.ev[chain]
      xchg == c.type = DRI2_XCHG_THROTTLE
      S1 == IF xchg THEN sna_dri_exchange_buffers(S, draw, c.front, c.back)
            ELSE [sna_dri_copy_to_front(S, c.event_data)
                    EXCEPT !.ev[chain].bo = IF in.flush THEN 1 ELSE 0]
      S2 == DRI2SwapComplete(S1, c.client, draw,
                             IF xchg THEN DRI2_EXCHANGE_COMPLETE
                             ELSE DRI2_BLIT_COMPLETE,
                             NullFunc(c), c.event_data)
  IN IF in.arm THEN ArmVblank(S2, chain, "RELATIVE", 0)
     ELSE sna_dri_frame_event_info_free(S2, chain)

\* the chain hand-over shared by case DRI2_SWAP_THROTTLE and DRI2_XCHG_THROTTLE
Advance(S, e, draw, in) ==
  LET info == S.ev[e]
      front == info.front
      S1 == Expect(S, S.buf[front].chain = e)
      S2 == [S1 EXCEPT !.buf[front].chain = info.chain]
      S3 == chain_swap(S2, draw, info.chain, in)
  IN [S3 EXCEPT !.ev[e].chain = 0]

\* a variant that never postpones
Throttle_eager(S, e, draw, in) ==
  sna_dri_frame_event_info_free(
    IF S.ev[e].chain # 0 THEN Advance(S, e, draw, in)
    ELSE IF S.buf[S.ev[e].front].chain = e
         THEN [S EXCEPT !.buf[S.ev[e].front].chain = 0]
         ELSE DRI2SwapComplete(S, S.ev[e].client, draw, DRI2_BLIT_COMPLETE,
                               NullFunc(S.ev[e]), S.ev[e].event_data),
    e)

\* case DRI2_SWAP_THROTTLE, entered with the heap S; TRUE in "freed" says the
\* handler runs on to the label done
Throttle(S, e, draw, in) ==
  LET info == S.ev[e]
      front == info.front
  IN IF info.bo # 0 /\ in.busy /\ in.rearm
     THEN ArmVblank(S, e, "RELATIVE", 1)
     ELSE sna_dri_frame_event_info_free(
            IF info.chain # 0 THEN Advance(S, e, draw, in)
            ELSE IF S.buf[front].chain = e
                 THEN [S EXCEPT !.buf[front].chain = 0]
                 ELSE DRI2SwapComplete(S, info.client, draw,
                                       DRI2_BLIT_COMPLETE, NullFunc(info),
                                       info.event_data),
            e)

\* a variant that leaves the type of the event as it was
Blit_again(S, e, draw, in) ==
  Throttle([sna_dri_copy_to_front(S, S.ev[e].event_data)
              EXCEPT !.ev[e].bo = IF in.flush THEN 1 ELSE 0],
           e, draw, in)

Blit(S, e, draw, in) ==
  Throttle([sna_dri_copy_to_front(S, S.ev[e].event_data)
              EXCEPT !.ev[e].bo = IF in.flush THEN 1 ELSE 0,
                     !.ev[e].type = DRI2_SWAP_THROTTLE],
           e, draw, in)

sna_dri_vblank_handler(S, e, in) ==
  LET info == S.ev[e]
      draw == info.drawable_id
  IN
  IF ~dixLookupDrawable(S, draw) THEN sna_dri_frame_event_info_free(S, e)
  ELSE CASE info.type = DRI2_FLIP ->
         IF can_flip(S, draw, info.front, info.back)
         THEN LET S1 == sna_dri_page_flip(S, e, in.count)
              IN IF in.count # 0
                 THEN [S1 EXCEPT !.buf[info.back].name = S1.ev[e].old_front.name,
                                 !.buf[info.back].bo = S1.ev[e].old_front.bo,
                                 !.ev[e].old_front.bo = 0]
                 ELSE Blit(S1, e, draw, in)
         ELSE Blit(S, e, draw, in)
       [] info.type = DRI2_SWAP -> Blit(S, e, draw, in)
       [] info.type = DRI2_SWAP_THROTTLE -> Throttle(S, e, draw, in)
       [] info.type = DRI2_XCHG_THROTTLE ->
         sna_dri_frame_event_info_free(
           IF info.chain # 0 THEN Advance(S, e, draw, in)
           ELSE [S EXCEPT !.buf[info.front].chain = 0],
           e)
       [] info.type = DRI2_WAITMSC ->
         \* event->sequence is the sequence the kernel answered when the
         \* event was queued (info->frame)
         sna_dri_frame_event_info_free(
           IF info.client # 0
           THEN DRI2WaitMSCComplete(S, info.client, draw, info.frame)
           ELSE S,
           e)
       [] OTHER -> sna_dri_frame_event_info_free(S, e)

sna_dri_flip_continue(S, draw, e, count) ==
  LET info == S.ev[e]
      name == S.buf[info.back].name
      b == S.buf[info.back].bo
      S0 == [S EXCEPT !.ev[e].count = count]
  IN IF count = 0 THEN S0
     ELSE LET S1 == set_bo([S0 EXCEPT !.flipq = @ \o Tokens(e, count),
                                      !.hist.submits[e] = @ + 1],
                           S.sna.front, b)
          IN [S1 EXCEPT !.buf[info.back].bo = info.old_front.bo,
                        !.buf[info.back].name = info.old_front.name,
                        !.ev[e].old_front = [name |-> S.buf[info.front].name,
                                             bo |-> S.buf[info.front].bo],
                        !.buf[info.front].name = name,
                        !.buf[info.front].bo = b,
                        !.ev[e].next_front.name = 0,
                        !.flip_pending = e]

sna_dri_flip_event(S, e, in) ==
  LET S0 == [S EXCEPT !.hist.flipevents[e] = @ + 1]
      flip == S.ev[e]
      draw == flip.drawable_id
  IN CASE flip.type = DRI2_FLIP ->
       sna_dri_frame_event_info_free(
         IF dixLookupDrawable(S0, draw)
         THEN DRI2SwapComplete(S0, flip.client, draw, DRI2_FLIP_COMPLETE,
                               NullFunc(flip), flip.event_data)
         ELSE S0,
         e)
     [] flip.type = DRI2_FLIP_THROTTLE ->
       LET S1 == [Expect(S0, S0.flip_pending = e) EXCEPT !.flip_pending = 0]
       IN IF flip.next_front.name # 0 /\ dixLookupDrawable(S1, draw)
          THEN IF can_flip(S1, draw, flip.front, flip.back) /\ in.count # 0
               THEN DRI2SwapComplete(sna_dri_flip_continue(S1, draw, e, in.count),
                                     flip.client, draw, DRI2_FLIP_COMPLETE,
                                     NullFunc(flip), flip.event_data)
               ELSE sna_dri_frame_event_info_free(
                      DRI2SwapComplete(
                        IF can_flip(S1, draw, flip.front, flip.back)
                        THEN sna_dri_flip_continue(S1, draw, e, 0) ELSE S1,
                        flip.client, draw, DRI2_EXCHANGE_COMPLETE,
                        NullFunc(flip), flip.event_data),
                      e)
          ELSE sna_dri_frame_event_info_free(S1, e)
     [] OTHER -> S0

\* a variant that completes the flip on every interrupt
sna_dri_page_flip_handler_eager(S, e, in) ==
  sna_dri_flip_event([S EXCEPT !.ev[e].count = @ - 1], e, in)

sna_dri_page_flip_handler(S, e, in) ==
  LET S1 == [S EXCEPT !.ev[e].count = @ - 1]
  IN IF S1.ev[e].count # 0 THEN S1 ELSE sna_dri_flip_event(S1, e, in)

\* ---- resource callbacks
\* a variant that forgets the client of every frame event
sna_dri_frame_event_client_gone_all(S, c) ==
  [S EXCEPT !.ev = [e \in DOMAIN @ |->
                      IF @[e].live THEN [@[e] EXCEPT !.client = 0] ELSE @[e]]]

sna_dri_frame_event_client_gone(S, c) ==
  [S EXCEPT !.ev = [e \in DOMAIN @ |->
                      IF @[e].live /\ @[e].client = c
                      THEN [@[e] EXCEPT !.client = 0] ELSE @[e]]]

sna_dri_frame_event_drawable_gone(S, d) ==
  [S EXCEPT !.ev = [e \in DOMAIN @ |->
                      IF @[e].live /\ @[e].drawable_id = d
                      THEN [@[e] EXCEPT !.drawable_id = 0] ELSE @[e]]]

sna_dri_drawable_gone(S, d) == _sna_dri_destroy_buffer(S, Front(d))

\* ---- configurations of a drawable.  A window on the scanout pixmap is
\* either unclipped ("full": its clip list is the root window's size) or
\* clipped by a sibling ("clip"); a redirected window has a pixmap of its own
\* which it fills ("redir") or not ("small", a reparented window); "pix" is an
\* off-screen pixmap.  Only one window at a time can own the whole screen.
Window(pixmap, w, h, clip) ==
  [type |-> DRAWABLE_WINDOW, x |-> 0, y |-> 0, width |-> w, height |-> h,
   clipList |-> clip, pixmap |-> pixmap, crtc |-> 0]

Config(kind, d) ==
  CASE kind = "full" -> Window(SnaFront, ScreenW, ScreenH, RootWinSize)
    [] kind = "clip" -> Window(SnaFront, ScreenW, ScreenH, <<0, 0, 1, ScreenH>>)
    [] kind = "redir" -> Window(OwnPixmap(d), ScreenW, ScreenH, RootWinSize)
    [] kind = "small" -> Window(OwnPixmap(d), 1, 1, <<0, 0, 1, 1>>)
    [] OTHER -> [type |-> DRAWABLE_PIXMAP, x |-> 0, y |-> 0, width |-> ScreenW,
                 height |-> ScreenH, clipList |-> RootWinSize,
                 pixmap |-> OwnPixmap(d), crtc |-> -1]

Kinds(d) == IF d = 1 THEN {"full", "clip", "redir", "small", "pix"}
            ELSE {"full", "clip"}

OneFull(k) == Cardinality({d \in Drawables : k[d] = "full"}) <= 1

Pixmap(b) ==
  [gpu_bo |-> b, width |-> ScreenW, height |-> ScreenH,
   screen_x |-> 0, screen_y |-> 0]

\* The buffers sna_dri_create_buffer hands out for a drawable: the front
\* buffer shares the bo of the drawable's pixmap and is also held by the
\* dri_drawable_type resource, the back buffer has a bo of its own.
PixBo(p) == IF p = SnaFront THEN ScreenBo ELSE OwnBo(p - 1)

InitBuf(d, c) ==
  [b \in {Front(d), Back(d)} |->
     IF b = Front(d)
     THEN [name |-> kgem_bo_flink(PixBo(c.pixmap)),
           attachment |-> DRI2BufferFrontLeft, format |-> 24, refcnt |-> 2,
           pixmap |-> c.pixmap, bo |-> PixBo(c.pixmap), chain |-> 0]
     ELSE [name |-> kgem_bo_flink(BackBo(d)), attachment |-> DRI2BufferBackLeft,
           format |-> 24, refcnt |-> 1, pixmap |-> 0, bo |-> BackBo(d),
           chain |-> 0]]

\* one reference per pixmap or back buffer that owns the bo, one more per
\* front buffer attached to the pixmap (sna_dri_create_buffer: ref(bo))
InitBo(c) ==
  [b \in 1..(2 * NumDrawables + 1) |->
     [refcnt |-> 1 + Cardinality({d \in Drawables : PixBo(c[d].pixmap) = b}),
      tiling |-> I915_TILING_X]]

NoCall ==
  [data |-> 0, draw |-> 0, divisor |-> 0, target |-> 0, fail |-> "none",
   ret |-> FALSE, target_msc |-> 0, fallback |-> FALSE,
   remainder |-> 0, cur |-> 0, blocked |-> FALSE]

\* nothing scheduled yet
Idle ==
  /\ alive = [d \in Drawables |-> TRUE]
  /\ clients = [d \in Drawables |-> TRUE]
  /\ ev = <<>>
  /\ flip_pending = 0
  /\ flipq = <<>>
  /\ vbl = {}
  /\ done = <<>>
  /\ nreq = 0
  /\ call = NoCall
  /\ hist = [reqs |-> <<>>, copies |-> <<>>, submits |-> <<>>,
             flipevents |-> <<>>, waits |-> 0]
  /\ assert_ok = TRUE
  /\ aborted = FALSE
  /\ nenv = 0

InitHeap ==
  \E k \in [Drawables -> {"full", "clip", "redir", "small", "pix"}],
     nw \in BOOLEAN :
    /\ \A d \in Drawables : k[d] \in Kinds(d)
    /\ OneFull(k)
    /\ sna = [vtSema |-> TRUE, no_flip |-> FALSE, no_wait |-> nw,
              shadow_active |-> FALSE, front |-> SnaFront]
    /\ cfg = [d \in Drawables |-> Config(k[d], d)]
    /\ pix = [p \in 1..(NumDrawables + 1) |-> Pixmap(PixBo(p))]
    /\ bo = InitBo(cfg)
    /\ buf = [b \in 1..(2 * NumDrawables) |->
                InitBuf((b + 1) \div 2, cfg[(b + 1) \div 2])[b]]
    /\ Idle

Init == InitHeap /\ xs = 0

\* ---- the requests of the clients and the events of the server
ClientOf(d) == d
Divisors == {0, 2}
Targets == {0, 3}
Remainders == {1}
MscNow == {2}
Fails == {"none", "nomem", "nores", "flip", "nobo", "query", "arm"}

Dangling(S, e) == e # 0 /\ ~S.ev[e].live

\* what the collaborators may answer to a request in the heap S
SwapInputs(S, d, divisor) ==
  LET flip == can_flip(S, d, Front(d), Back(d))
      xchg == can_exchange(S, d, Front(d), Back(d))
      pipe == sna_dri_get_pipe(S, d)
      chained == flip /\ divisor = 0 /\ S.flip_pending # 0
                 /\ S.ev[S.flip_pending].live
                 /\ S.ev[S.flip_pending].drawable_id = d
      fails == IF flip
               THEN IF divisor = 0
                    THEN IF chained THEN {"none"}
                         ELSE {"none", "nomem", "nores", "flip", "nobo"}
                    ELSE {"none", "nomem", "nores", "query", "arm"}
               ELSE IF pipe = -1 THEN {"none"}
               ELSE IF divisor = 0
                    THEN IF S.buf[Front(d)].chain = 0
                         THEN {"none", "nomem", "nores", "arm"}
                         ELSE {"none", "nomem", "nores"}
                    ELSE {"none", "nomem", "nores", "query", "arm"}
  IN [fail : fails,
      count : IF flip /\ divisor = 0 /\ ~chained THEN 1..MaxCrtc ELSE {1},
      cur : IF divisor # 0 THEN MscNow ELSE {0},
      uaf : IF \/ flip /\ divisor = 0 /\ Dangling(S, S.flip_pending)
               \/ ~flip /\ divisor = 0 /\ pipe # -1
                  /\ Dangling(S, S.buf[Front(d)].chain)
            THEN BOOLEAN ELSE {FALSE},
      flush : IF ~flip /\ divisor = 0 /\ pipe # -1 /\ ~xchg
                 /\ S.buf[Front(d)].chain = 0
              THEN BOOLEAN ELSE {FALSE}]

\* the heap on entry to a call of sna_dri_schedule_swap, and on return from
\* it, the collaborators answering "in"
SwapHeap(d, target_msc, divisor, remainder, in) ==
  [Cur EXCEPT
     !.call = [NoCall EXCEPT !.data = nreq + 1, !.draw = d,
                 !.divisor = divisor, !.target = target_msc,
                 !.remainder = remainder, !.cur = in.cur,
                 !.fail = IF in.fail = "nores" THEN "nomem" ELSE in.fail],
     !.hist.copies = Append(@, 0),
     !.hist.reqs = Append(@,
        [draw |-> d, divisor |-> divisor, fail |-> in.fail,
         head |-> buf[Front(d)].chain,
         headlive |-> buf[Front(d)].chain # 0
                      /\ ev[buf[Front(d)].chain].live,
         headarmed |-> [info |-> buf[Front(d)].chain,
                        type |-> "RELATIVE",
                        sequence |-> 0] \in vbl,
         pend |-> flip_pending,
         flip |-> can_flip(Cur, d, Front(d), Back(d)),
         xchg |-> can_exchange(Cur, d, Front(d), Back(d)),
         pipe |-> sna_dri_get_pipe(Cur, d)])]

SwapResult(d, target_msc, divisor, remainder, in) ==
  sna_dri_schedule_swap(SwapHeap(d, target_msc, divisor, remainder, in),
                        ClientOf(d), d, Front(d), Back(d),
                        target_msc, divisor, remainder, nreq + 1, in)

DoSwapIn(d, target_msc, divisor, remainder, in) ==
  /\ Commit(SwapResult(d, target_msc, divisor, remainder, in))
  /\ nreq' = nreq + 1
  /\ UNCHANGED nenv

DoSwap(d, target_msc, divisor, remainder) ==
  /\ ~aborted /\ alive[d] /\ clients[ClientOf(d)]
  /\ buf[Front(d)].refcnt > 0 /\ buf[Back(d)].refcnt > 0
  /\ \E in \in SwapInputs(Cur, d, divisor) :
       DoSwapIn(d, target_msc, divisor, remainder, in)
  /\ UNCHANGED xs

ScheduleSwap(d, target_msc, divisor, remainder) ==
  /\ nreq + hist.waits < MaxReq
  /\ DoSwap(d, target_msc, divisor, remainder)

\* what the collaborators may answer to a wait request
WaitInputs(S, d, target_msc, divisor, counters) ==
  LET on == sna_dri_get_pipe(S, d) # -1
  IN {in \in [fail : {"none", "query", "nomem", "nores", "arm"},
              cur : IF on THEN counters ELSE {0}] :
        \/ in.fail = "none"
        \/ on /\ in.fail = "query"
        \/ on /\ ~(Mask32(divisor) = 0 /\ in.cur >= Mask32(target_msc))}

\* the heap on return from a call of sna_dri_schedule_wait_msc
WaitResult(d, target_msc, divisor, remainder, in) ==
  sna_dri_schedule_wait_msc(
    [Cur EXCEPT
       !.call = [NoCall EXCEPT !.draw = d, !.divisor = divisor,
                   !.target = target_msc,
                   !.remainder = remainder, !.cur = in.cur,
                   !.fail = IF in.fail = "nores" THEN "nomem" ELSE in.fail],
       !.hist.waits = @ + 1],
    ClientOf(d), d, target_msc, divisor, remainder, in)

DoWaitIn(d, target_msc, divisor, remainder, in) ==
  /\ Commit(WaitResult(d, target_msc, divisor, remainder, in))
  /\ UNCHANGED <<nreq, nenv>>

ScheduleWaitMSC(d, target_msc, divisor, remainder) ==
  /\ nreq + hist.waits < MaxReq
  /\ ~aborted /\ alive[d] /\ clients[ClientOf(d)]
  /\ \E in \in WaitInputs(Cur, d, target_msc, divisor, MscNow) :
       DoWaitIn(d, target_msc, divisor, remainder, in)
  /\ UNCHANGED xs

VblankInputs(S, e) ==
  LET info == S.ev[e]
      blit == info.type \in {DRI2_FLIP, DRI2_SWAP}
      throttle == blit \/ info.type = DRI2_SWAP_THROTTLE
  IN [count : IF info.type = DRI2_FLIP THEN 0..MaxCrtc ELSE {0},
      busy : IF throttle /\ (blit \/ info.bo # 0) THEN BOOLEAN ELSE {FALSE},
      rearm : IF throttle /\ (blit \/ info.bo # 0) THEN BOOLEAN ELSE {TRUE},
      arm : IF info.chain # 0 THEN BOOLEAN ELSE {TRUE},
      flush : IF blit \/ (info.chain # 0 /\ S.ev[info.chain].type # DRI2_XCHG_THROTTLE)
              THEN BOOLEAN ELSE {FALSE}]

VblankHandler(tok) ==
  /\ ~aborted /\ tok \in vbl /\ ev[tok.info].live
  /\ \E in \in VblankInputs(Cur, tok.info) :
       Commit(sna_dri_vblank_handler([Cur EXCEPT !.vbl = @ \ {tok}],
                                     tok.info, in))
  /\ UNCHANGED <<nreq, nenv, xs>>

PageFlipHandler ==
  /\ ~aborted /\ flipq # <<>> /\ ev[Head(flipq)].live
  /\ \E count \in 0..MaxCrtc :
       Commit(sna_dri_page_flip_handler([Cur EXCEPT !.flipq = Tail(@)],
                                        Head(flipq), [count |-> count]))
  /\ UNCHANGED <<nreq, nenv, xs>>

\* the window manager restacks or resizes a window
Reconfigure(d, kind) ==
  /\ ~aborted /\ nenv < MaxEnv /\ alive[d]
  /\ cfg[d].type = DRAWABLE_WINDOW
  /\ Config(kind, d).type = DRAWABLE_WINDOW
  /\ Config(kind, d).pixmap = cfg[d].pixmap
  /\ Config(kind, d) # cfg[d]
  /\ cfg' = [x \in Drawables |->
               IF x = d THEN Config(kind, d)
               ELSE IF kind = "full" /\ cfg[x] = Config("full", x)
                    THEN Config("clip", x) ELSE cfg[x]]
  /\ nenv' = nenv + 1
  /\ UNCHANGED <<sna, alive, clients, pix, bo, buf, ev, flip_pending, flipq,
                 vbl, done, nreq, call, hist, assert_ok, aborted, xs>>

\* FreeResource on the drawable: the frame events forget it, the resource
\* and DRI2 drop their references on its buffers
DrawableGone(d) ==
  /\ ~aborted /\ nenv < MaxEnv /\ alive[d]
  /\ LET S1 == sna_dri_frame_event_drawable_gone([Cur EXCEPT !.alive[d] = FALSE], d)
         S2 == sna_dri_drawable_gone(S1, d)
         S3 == _sna_dri_destroy_buffer(S2, Front(d))
     IN Commit(_sna_dri_destroy_buffer(S3, Back(d)))
  /\ nenv' = nenv + 1
  /\ UNCHANGED <<nreq, xs>>

ClientGone(c) ==
  /\ ~aborted /\ nenv < MaxEnv /\ clients[c]
  /\ Commit(sna_dri_frame_event_client_gone([Cur EXCEPT !.clients[c] = FALSE], c))
  /\ nenv' = nenv + 1
  /\ UNCHANGED <<nreq, xs>>

Next ==
  \/ \E d \in Drawables, t \in Targets, m \in Divisors, r \in Remainders :
       ScheduleSwap(d, t, m, r)
  \/ \E d \in Drawables, t \in Targets, m \in Divisors, r \in Remainders :
       ScheduleWaitMSC(d, t, m, r)
  \/ \E tok \in vbl : VblankHandler(tok)
  \/ PageFlipHandler
  \/ \E d \in Drawables, k \in {"full", "clip", "redir", "small"} :
       Reconfigure(d, k)
  \/ \E d \in Drawables : DrawableGone(d)
  \/ \E c \in Drawables : ClientGone(c)

Spec == Init /\ [][Next]_vars

\* ---- one drawable, immediate requests only: drawable 1 issues up to MaxChain
\* requests with divisor 0, the vblank and page-flip events are delivered in
\* between, nothing else happens
MaxChain == 3

SingleSwap(t) == nreq < MaxChain /\ DoSwap(1, t, 0, 0)

NextSingle ==
  \/ \E t \in Targets : SingleSwap(t)
  \/ \E tok \in vbl : VblankHandler(tok)
  \/ PageFlipHandler

SpecSingle == Init /\ [][NextSingle]_vars

\* ---- sna_dri_exchange_buffers on its own: drawable 1 is a redirected window
\* or a pixmap; drawable 2 is a redirected window with a pixmap of its own or
\* a child window filling the pixmap of window 1 (sna_pixmap_set_dri counts
\* the DRI2 drawables of a pixmap in priv->flush).  xs remembers the heap
\* before the last call (one) and before the one preceding it (two).
MaxXchg == 6

Heap == [buf |-> buf, pix |-> pix, bo |-> bo]

InitXchg ==
  \E k \in {"redir", "pix"}, shared \in BOOLEAN :
    /\ shared => k = "redir"
    /\ sna = [vtSema |-> TRUE, no_flip |-> FALSE, no_wait |-> FALSE,
              shadow_active |-> FALSE, front |-> SnaFront]
    /\ cfg = [d \in Drawables |->
                IF d = 1 THEN Config(k, 1)
                ELSE IF shared THEN Config("redir", 1) ELSE Config("redir", d)]
    /\ pix = [p \in 1..(NumDrawables + 1) |-> Pixmap(PixBo(p))]
    /\ bo = InitBo(cfg)
    /\ buf = [b \in 1..(2 * NumDrawables) |->
                InitBuf((b + 1) \div 2, cfg[(b + 1) \div 2])[b]]
    /\ Idle
    /\ xs = [n |-> 0, d |-> 0, dd |-> 0, one |-> Heap, two |-> Heap]

Exchange(d) ==
  /\ xs.n < MaxXchg
  /\ can_exchange(Cur, d, Front(d), Back(d))
  /\ \A b \in {Front(d), Back(d)} : bo[buf[b].bo].refcnt > 0
  /\ bo[pix[cfg[d].pixmap].gpu_bo].refcnt > 0
  /\ Install(sna_dri_exchange_buffers(Cur, d, Front(d), Back(d)))
  /\ xs' = [n |-> xs.n + 1, d |-> d, dd |-> xs.d, one |-> Heap, two |-> xs.one]
  /\ UNCHANGED <<nreq, nenv>>

NextXchg == \E d \in Drawables : Exchange(d)

SpecXchg == InitXchg /\ [][NextXchg]_vars

\* ---- can_flip on its own: every combination of what it looks at, a call
\* that records its answer in xs, and the window manager clipping the window
\* or letting it cover the screen again
Formats == {24, 32}

InitCanFlip ==
  \E vt \in BOOLEAN, nf \in BOOLEAN, sh \in BOOLEAN,
     ty \in {DRAWABLE_WINDOW, DRAWABLE_PIXMAP}, pm \in {SnaFront, OwnPixmap(1)},
     x0 \in {0, 1}, y0 \in {0, 1}, w \in {1, ScreenW}, h \in {1, ScreenH},
     clip \in {RootWinSize, <<0, 0, 1, ScreenH>>},
     fmt \in Formats, att \in {DRI2BufferFrontLeft, DRI2BufferBackLeft},
     til \in {I915_TILING_X, I915_TILING_Y} :
    /\ sna = [vtSema |-> vt, no_flip |-> nf, no_wait |-> FALSE,
              shadow_active |-> sh, front |-> SnaFront]
    /\ cfg = [d \in Drawables |->
                IF d = 1
                THEN [type |-> ty, x |-> x0, y |-> y0, width |-> w, height |-> h,
                      clipList |-> clip, pixmap |-> pm,
                      crtc |-> IF ty = DRAWABLE_PIXMAP THEN -1 ELSE 0]
                ELSE Config("clip", d)]
    /\ pix = [p \in 1..(NumDrawables + 1) |-> Pixmap(PixBo(p))]
    /\ bo = [InitBo(cfg) EXCEPT ![BackBo(1)].tiling = til]
    /\ buf = [b \in 1..(2 * NumDrawables) |->
                IF b = Front(1)
                THEN [InitBuf(1, cfg[1])[b] EXCEPT !.format = fmt,
                                                   !.attachment = att]
                ELSE InitBuf((b + 1) \div 2, cfg[(b + 1) \div 2])[b]]
    /\ Idle
    /\ xs = [n |-> 0, res |-> FALSE, cliponly |-> FALSE, was |-> FALSE,
             xchg |-> FALSE]

\* everything can_flip asks for, the clip list aside
FlipConditionsButClip ==
  /\ cfg[1].type = DRAWABLE_WINDOW
  /\ sna.vtSema
  /\ ~sna.no_flip
  /\ buf[Front(1)].format = buf[Back(1)].format
  /\ buf[Front(1)].attachment = DRI2BufferFrontLeft
  /\ ~sna.shadow_active
  /\ cfg[1].pixmap = sna.front
  /\ cfg[1].x = 0 /\ cfg[1].y = 0
  /\ cfg[1].width = pix[cfg[1].pixmap].width
  /\ cfg[1].height = pix[cfg[1].pixmap].height
  /\ bo[buf[Front(1)].bo].tiling = bo[buf[Back(1)].bo].tiling

CanFlipCall ==
  /\ xs.n < MaxReq
  /\ xs' = [n |-> xs.n + 1,
            res |-> can_flip(Cur, 1, Front(1), Back(1)),
            cliponly |-> FlipConditionsButClip
                         /\ cfg[1].clipList # RootWinSize,
            was |-> xs.cliponly,
            xchg |-> can_exchange(Cur, 1, Front(1), Back(1))]
  /\ UNCHANGED <<sna, cfg, alive, clients, pix, bo, buf, ev, flip_pending,
                 flipq, vbl, done, nreq, call, hist, assert_ok, aborted, nenv>>

Restack(clip) ==
  /\ nenv < MaxEnv
  /\ cfg[1].type = DRAWABLE_WINDOW /\ cfg[1].clipList # clip
  /\ cfg' = [cfg EXCEPT ![1].clipList = clip]
  /\ nenv' = nenv + 1
  /\ UNCHANGED <<sna, alive, clients, pix, bo, buf, ev, flip_pending, flipq,
                 vbl, done, nreq, call, hist, assert_ok, aborted, xs>>

NextCanFlip ==
  \/ CanFlipCall
  \/ \E clip \in {RootWinSize, <<0, 0, 1, ScreenH>>} : Restack(clip)

SpecCanFlip == InitCanFlip /\ [][NextCanFlip]_vars

\* ---- frame counter arithmetic: one request per run, the counter, the
\* target, the divisor and the remainder drawn from wider sets, each of the
\* three arguments also with bits above the width of the counter (Wrap).
\* xs.same records that the same call with the arguments reduced to the
\* width of the counter has the same outcome.
MaxMsc == 1
Counters == {0, 100, 101, 102, MscModulus - 1}
MscTargets == {0, 103}
MscDivisors == {0, 2, 5}
MscRemainders == {0, 2, 4}
Wrap == {<<0, 0, 0>>, <<MscModulus, 0, 0>>, <<0, MscModulus, 0>>,
         <<0, 0, MscModulus>>}

\* what of a heap the server and the client can observe after a request: all
\* but the arguments kept in call and in the log of the requests, and the
\* value handed back in *target_msc
Outcome(S) ==
  [S EXCEPT !.call = [ret |-> @.ret, fallback |-> @.fallback,
                       blocked |-> @.blocked],
            !.hist.reqs = <<>>]

InitMsc == InitHeap /\ xs = [same |-> TRUE]

MscSwap(d, t, m, r, c) ==
  /\ nreq + hist.waits < MaxMsc
  /\ ~aborted /\ alive[d] /\ clients[ClientOf(d)]
  /\ \E in0 \in SwapInputs(Cur, d, m), w \in Wrap :
       LET in == [in0 EXCEPT !.cur = IF m # 0 THEN c ELSE 0]
       IN /\ DoSwapIn(d, t + w[1], m + w[2], r + w[3], in)
          /\ xs' = [same |->
                      Outcome(SwapResult(d, t + w[1], m + w[2], r + w[3], in))
                        = Outcome(SwapResult(d, t, m, r, in))]

MscWait(d, t, m, r) ==
  /\ nreq + hist.waits < MaxMsc
  /\ ~aborted /\ alive[d] /\ clients[ClientOf(d)]
  /\ \E in \in WaitInputs(Cur, d, t, m, Counters), w \in Wrap :
       /\ DoWaitIn(d, t + w[1], m + w[2], r + w[3], in)
       /\ xs' = [same |->
                   Outcome(WaitResult(d, t + w[1], m + w[2], r + w[3], in))
                     = Outcome(WaitResult(d, t, m, r, in))]

NextMsc ==
  \/ \E d \in Drawables, t \in MscTargets, m \in MscDivisors,
        r \in MscRemainders, c \in Counters : MscSwap(d, t, m, r, c)
  \/ \E d \in Drawables, t \in MscTargets, m \in MscDivisors,
        r \in MscRemainders : MscWait(d, t, m, r)

SpecMsc == InitMsc /\ [][NextMsc]_vars

\* ---- what a run was: the requests made and the notifications issued
Req(r) == hist.reqs[r]

Notified(r) == Cardinality({i \in DOMAIN done : done[i].data = r})

NotifiedOwn(r) ==
  Cardinality({i \in DOMAIN done : done[i].data = r /\ done[i].func = r})

Outstanding(e) == Cardinality({i \in DOMAIN flipq : flipq[i] = e})

\* every armed vblank and every submitted flip has been delivered, nobody left
Quiescent ==
  /\ vbl = {} /\ flipq = <<>> /\ ~aborted
  /\ \A d \in Drawables : alive[d] /\ clients[d]

\* the request of this step: a flip-eligible one with divisor 0
FlipRequestStep ==
  /\ nreq' = nreq + 1 /\ ~aborted'
  /\ hist'.reqs[nreq'].flip /\ hist'.reqs[nreq'].divisor = 0

\* C1: while the pending-flip slot holds a frame event whose flip has not
\* completed, a flip-eligible request with divisor 0, on whatever drawable,
\* never puts a different frame event into the slot.
C1_PendingFlipNeverReplaced ==
  [][(/\ FlipRequestStep
      /\ flip_pending # 0
      /\ ev[flip_pending].live /\ ev[flip_pending].count > 0)
     => flip_pending' = flip_pending]_vars

\* C2: with the requests of one drawable only, all with divisor 0, at most
\* one frame event has a flip outstanding and it is the occupant of the
\* pending-flip slot; a flip-eligible request that finds the slot occupied by
\* its drawable's event creates no frame event, submits no flip, only sets
\* the occupant's next_front.name, and returns TRUE.
C2_SingleDrawableChains ==
  /\ [](~aborted =>
          /\ \A e \in DOMAIN ev :
               (ev[e].live /\ ev[e].count > 0) => flip_pending = e
          /\ flip_pending # 0 =>
               ev[flip_pending].live /\ ev[flip_pending].count > 0)
  /\ [][(/\ FlipRequestStep
         /\ flip_pending # 0
         /\ ev[flip_pending].drawable_id = hist'.reqs[nreq'].draw)
        => /\ ev' = [ev EXCEPT ![flip_pending].next_front.name = 1]
           /\ flipq' = flipq /\ vbl' = vbl /\ done' = done
           /\ flip_pending' = flip_pending
           /\ buf' = buf /\ bo' = bo /\ pix' = pix
           /\ call'.ret = TRUE]_vars

C2_Witness ==
  /\ nreq >= 2 /\ call.data = nreq /\ call.ret /\ Req(nreq).flip
  /\ Req(nreq).pend # 0 /\ flip_pending = Req(nreq).pend
  /\ ev[flip_pending].live /\ ev[flip_pending].next_front.name = 1
  /\ Len(ev) = 1

\* C3: the pending-flip slot is empty or names a live frame event whose flip
\* completion is still to come; sna_dri_flip_event running for the occupant
\* without resubmitting a flip empties the slot; and the slot is emptied by no
\* other step than the completion of its occupant.
C3_SlotClearedByOccupant ==
  /\ [](flip_pending # 0 =>
          ev[flip_pending].live /\ ev[flip_pending].count > 0)
  /\ [][(/\ flip_pending # 0
         /\ hist'.flipevents[flip_pending] # hist.flipevents[flip_pending]
         /\ hist'.submits[flip_pending] = hist.submits[flip_pending])
        => flip_pending' = 0]_vars
  /\ [][(flip_pending # 0 /\ flip_pending' = 0)
        => hist'.flipevents[flip_pending]
             = hist.flipevents[flip_pending] + 1]_vars

\* C4: every request is accepted and is notified exactly once, with its own
\* callback and data: never twice, and once all the armed events have been
\* delivered (client and drawable alive) none is left without notification.
C4_EveryRequestNotifiedOnce ==
  /\ (nreq > 0 /\ call.data = nreq) => call.ret
  /\ \A r \in 1..nreq : Notified(r) <= 1
  /\ Quiescent => \A r \in 1..nreq : NotifiedOwn(r) = 1

\* requests 1, 2 and 3 of an on-screen drawable, the last two submitted while
\* the throttle event of the first was still the head of the front buffer's
\* chain with its vblank not yet fired
ThreeChained ==
  /\ nreq >= 3 /\ Len(hist.reqs) >= 3
  /\ \A r \in 1..3 : /\ Req(r).divisor = 0 /\ Req(r).fail = "none"
                      /\ Req(r).pipe # -1 /\ ~Req(r).flip
  /\ Req(1).head = 0
  /\ \A r \in 2..3 :
       /\ Req(r).head # 0 /\ Req(r).headlive /\ Req(r).headarmed
       /\ ev[Req(r).head].event_data = 1

\* C5: requests R1, R2, R3 with divisor 0 on one on-screen drawable, R2 and
\* R3 submitted while R1's throttle event is pending, are notified in the
\* order R1, R2, R3, and all three are once every armed vblank has fired.
C5_ChainedInSubmissionOrder ==
  ThreeChained =>
    /\ \A i \in DOMAIN done : i <= 3 => done[i].data = i
    /\ Quiescent => \A r \in 1..3 : Notified(r) = 1

\* C6: a request step never replaces the successor a live frame event
\* already has (priv->chain->chain is NULL whenever it is assigned).
C6_OneSuccessor ==
  [][(nreq' = nreq + 1)
     => \A e \in DOMAIN ev :
          (ev[e].live /\ ev[e].chain # 0) => ev'[e].chain = ev[e].chain]_vars

\* the step of a request in which a vblank query or arming failed
ArmFailureStep ==
  /\ nreq' = nreq + 1 /\ ~aborted'
  /\ call'.fail \in {"query", "arm"}

\* what the fallback does for the request of this step, *target_msc aside
FellBack ==
  LET r == nreq'
      d == call'.draw
      last == done'[Len(done')]
  IN /\ call'.ret = TRUE
     /\ Len(done') = Len(done) + 1
     /\ last.data = r /\ last.func = r /\ last.draw = d
     /\ IF hist'.reqs[r].xchg
        THEN /\ last.type = DRI2_EXCHANGE_COMPLETE
             /\ buf'[Front(d)].bo = buf[Back(d)].bo
             /\ buf'[Back(d)].bo = buf[Front(d)].bo
             /\ hist'.copies[r] = 0
        ELSE /\ last.type = DRI2_BLIT_COMPLETE
             /\ buf'[Front(d)].bo = buf[Front(d)].bo
             /\ buf'[Back(d)].bo = buf[Back(d)].bo
             /\ hist'.copies[r] = 1
     /\ \A e \in DOMAIN ev' : e \notin DOMAIN ev => ~ev'[e].live
     /\ \A b \in DOMAIN buf : buf'[b].refcnt = buf[b].refcnt
     /\ vbl' = vbl /\ flipq' = flipq

\* C7 as stated: whenever a step of sna_dri_schedule_swap fails to arm a
\* vblank event, the request is served by a synchronous exchange or blit, the
\* frame event is freed, the completion is signalled, *target_msc is 0 and
\* TRUE is returned.
C7_ArmFailureZeroesTarget ==
  [][ArmFailureStep => (FellBack /\ call'.target_msc = 0)]_vars

\* C7 amended: as above, but *target_msc is set to 0 only on the paths through
\* blit_fallback (divisor # 0); an immediate request (divisor 0) whose
\* throttle event cannot be armed keeps the truncated target it came with.
C7_ArmFailureFallsBack ==
  [][ArmFailureStep =>
       /\ FellBack
       /\ call'.target_msc
            = IF call'.divisor # 0 THEN 0 ELSE Mask32(call'.target)]_vars

C7_Witness ==
  /\ nreq > 0 /\ call.data = nreq /\ call.fail = "arm" /\ call.divisor # 0
  /\ call.fallback /\ call.ret /\ call.target_msc = 0
  /\ done # <<>> /\ done[Len(done)].data = nreq
  /\ \A e \in DOMAIN ev : ev[e].event_data = nreq => ~ev[e].live

\* C8: a submitted flip stores a count >= 1, the number of completions still
\* to come; an interrupt that leaves the count positive only decrements it;
\* sna_dri_flip_event runs once per submission, in the step of the interrupt
\* that finds the count at 1, and in no other step.
C8_FlipCompletionCounting ==
  /\ [](\A e \in DOMAIN ev :
          /\ hist.submits[e] - hist.flipevents[e]
               = IF Outstanding(e) > 0 THEN 1 ELSE 0
          /\ Outstanding(e) > 0 =>
               (aborted \/ (ev[e].live /\ ev[e].count = Outstanding(e))))
  /\ [][(flipq # <<>> /\ flipq' # flipq /\ nreq' = nreq /\ vbl' = vbl)
        => LET h == Head(flipq)
           IN IF ev[h].count > 1
              THEN /\ ev'[h].count = ev[h].count - 1
                   /\ flipq' = Tail(flipq)
                   /\ hist'.flipevents = hist.flipevents
              ELSE hist'.flipevents
                     = [hist.flipevents EXCEPT ![h] = @ + 1]]_vars
  /\ [][\A e \in DOMAIN ev :
          hist'.flipevents[e] # hist.flipevents[e]
          => /\ flipq # <<>> /\ Head(flipq) = e /\ ev[e].count = 1
             /\ hist'.flipevents[e] = hist.flipevents[e] + 1]_vars

C8_Witness ==
  \E e \in DOMAIN ev :
    /\ hist.submits[e] = 2 /\ hist.flipevents[e] = 1
    /\ ev[e].live /\ ev[e].count = 1 /\ flipq = <<e>>

\* the two last calls of sna_dri_exchange_buffers were for the same drawable
TwiceFor(d) == xs.n >= 2 /\ xs.d = d /\ xs.dd = d

SameHandles(d, h) ==
  \A b \in {Front(d), Back(d)} :
    buf[b].bo = h.buf[b].bo /\ buf[b].name = h.buf[b].name

\* a single call makes front refer to back's former storage and back to
\* front's former storage
Swapped(d, h) ==
  /\ buf[Front(d)].bo = h.buf[Back(d)].bo
  /\ buf[Front(d)].name = h.buf[Back(d)].name
  /\ buf[Back(d)].bo = h.buf[Front(d)].bo
  /\ buf[Back(d)].name = h.buf[Front(d)].name

\* C9 as stated: two calls of sna_dri_exchange_buffers(front, back) restore
\* bo and name of front and of back, the bo of the drawable's pixmap and
\* every bo reference count; one call swaps the storage of front and back.
C9_ExchangeInvolution ==
  \A d \in Drawables :
    /\ (xs.n >= 1 /\ xs.d = d) => Swapped(d, xs.one)
    /\ TwiceFor(d) =>
         /\ SameHandles(d, xs.two)
         /\ pix = xs.two.pix
         /\ bo = xs.two.bo

\* C9 amended: the handles are always restored; the pixmap's bo and the
\* reference counts are when the pixmap's bo was front's bo before the first
\* of the two calls.
C9_ExchangeInvolutionAttached ==
  \A d \in Drawables :
    /\ (xs.n >= 1 /\ xs.d = d) =>
         /\ Swapped(d, xs.one)
         /\ pix[cfg[d].pixmap].gpu_bo = xs.one.buf[Back(d)].bo
    /\ TwiceFor(d) =>
         /\ SameHandles(d, xs.two)
         /\ (xs.two.pix[cfg[d].pixmap].gpu_bo = xs.two.buf[Front(d)].bo)
              => (pix = xs.two.pix /\ bo = xs.two.bo)

C9_Witness ==
  \E d \in Drawables :
    /\ TwiceFor(d)
    /\ xs.two.pix[cfg[d].pixmap].gpu_bo = xs.two.buf[Front(d)].bo
    /\ xs.one.buf[Front(d)].bo # xs.two.buf[Front(d)].bo
    /\ SameHandles(d, xs.two) /\ pix = xs.two.pix /\ bo = xs.two.bo

\* C10: a call of can_flip answers TRUE exactly when the drawable is a
\* window, the VT is owned, flipping is enabled, the formats are equal, front
\* is FrontLeft, shadow is off, the pixmap is the scanout pixmap, the clip
\* list is the root window's size, the window is at (0,0) with the pixmap's
\* width and height, and the tilings are equal; earlier answers play no part:
\* after a rejection for clipping alone the unclipped window is accepted.
C10_CanFlipExactly ==
  [][(xs'.n = xs.n + 1)
     => /\ xs'.res = (FlipConditionsButClip /\ cfg[1].clipList = RootWinSize)
        /\ (/\ xs.n > 0 /\ xs.cliponly /\ ~xs.res
            /\ cfg[1].clipList = RootWinSize) => xs'.res]_vars

C10_Witness ==
  /\ xs.n = 2 /\ xs.res /\ xs.was /\ nenv = 1
  /\ cfg[1].clipList = RootWinSize

\* C11: a call of can_exchange answers TRUE exactly when the drawable is a
\* pixmap, or a window whose pixmap is not the scanout pixmap, whose width
\* and height are its pixmap's, and whose front and back formats are equal.
C11_CanExchangeExactly ==
  [][(xs'.n = xs.n + 1)
     => xs'.xchg
          = \/ cfg[1].type = DRAWABLE_PIXMAP
            \/ /\ cfg[1].type = DRAWABLE_WINDOW
               /\ cfg[1].pixmap # sna.front
               /\ cfg[1].width = pix[cfg[1].pixmap].width
               /\ cfg[1].height = pix[cfg[1].pixmap].height
               /\ buf[Front(1)].format = buf[Back(1)].format]_vars

C11_Witness ==
  /\ xs.n >= 1 /\ xs.xchg /\ cfg[1].type = DRAWABLE_WINDOW
  /\ cfg[1].pixmap = OwnPixmap(1)

\* the step of a flip-eligible request with an active pipe to which every
\* collaborator answers with success
AcceptedFlipStep ==
  /\ nreq' = nreq + 1 /\ ~aborted'
  /\ hist'.reqs[nreq'].flip /\ hist'.reqs[nreq'].pipe # -1
  /\ hist'.reqs[nreq'].fail = "none"

\* the request of this step got a frame event of its own, of a FLIP class
NewFlipEvent ==
  /\ Len(ev') = Len(ev) + 1
  /\ ev'[Len(ev')].live /\ ev'[Len(ev')].event_data = nreq'
  /\ ev'[Len(ev')].type \in {DRI2_FLIP, DRI2_FLIP_THROTTLE}

ImmediateStep ==
  /\ nreq' = nreq + 1 /\ ~aborted'
  /\ hist'.reqs[nreq'].divisor = 0 /\ hist'.reqs[nreq'].pipe # -1

C14_ImmediateWaitsForTarget ==
  [][(/\ ImmediateStep /\ hist'.reqs[nreq'].fail = "none"
      /\ \A m \in MscNow : call'.target > m)
     => /\ hist'.submits = hist.submits
        /\ hist'.copies[nreq'] = 0
        /\ done' = done
        /\ \A b \in DOMAIN buf : buf'[b].name = buf[b].name]_vars

\* the step of a swap request with divisor D > 0 and remainder R < D for an
\* on-screen drawable that cannot flip, every collaborator succeeding
DivisorBlitStep ==
  /\ nreq' = nreq + 1 /\ ~aborted'
  /\ ~hist'.reqs[nreq'].flip /\ hist'.reqs[nreq'].pipe # -1
  /\ hist'.reqs[nreq'].fail = "none"
  /\ Mask32(call'.divisor) > 0
  /\ Mask32(call'.remainder) < Mask32(call'.divisor)

\* N is the first frame after cur with N % D = R
FirstAfter(N, cur, D, R) == N % D = R /\ N > cur /\ N - D <= cur

\* C15: on the blit/exchange path with divisor D > 0 and remainder R < D the
\* vblank event is armed for the smallest N > current counter with
\* N % D = R, whatever the counter and target_msc (counter 100, D = 5, R = 2:
\* 102).  N is read as the sequence asked for or as the one the kernel
\* answers, whichever fits.
C15_SwapArmsNextCongruent ==
  [][DivisorBlitStep
     => \E t \in vbl' \ vbl :
          \/ FirstAfter(t.sequence, call'.cur, Mask32(call'.divisor),
                        Mask32(call'.remainder))
          \/ FirstAfter(ev'[t.info].frame, call'.cur, Mask32(call'.divisor),
                        Mask32(call'.remainder))]_vars

\* the step of a wait request with divisor D > 0, remainder R < D and a target
\* that the counter has reached, for an on-screen drawable, every collaborator
\* succeeding
DivisorWaitStep ==
  /\ hist'.waits = hist.waits + 1 /\ ~aborted'
  /\ sna_dri_get_pipe(Cur, call'.draw) # -1
  /\ call'.fail = "none"
  /\ Mask32(call'.divisor) > 0
  /\ Mask32(call'.remainder) < Mask32(call'.divisor)
  /\ Mask32(call'.target) <= call'.cur

\* the vblank event armed by the step is the first frame after the counter
\* that fits divisor and remainder, and the client is blocked on it
WaitArmsNext ==
  /\ call'.blocked
  /\ \E t \in vbl' \ vbl :
       /\ vbl' = vbl \cup {t}
       /\ t.info = Len(ev') /\ ev'[t.info].type = DRI2_WAITMSC
       /\ ev'[t.info].frame = t.sequence
       /\ FirstAfter(t.sequence, call'.cur, Mask32(call'.divisor),
                     Mask32(call'.remainder))

C17_TruncatedTo32Bits ==
  [][((nreq' = nreq + 1 \/ hist'.waits = hist.waits + 1) /\ ~aborted')
     => xs'.same]_vars

\* a swap on the blit path and a wait, each with a target above 32 bits,
\* armed at the truncated target
C17_Witness ==
  /\ xs.same /\ call.target = MscModulus + 103 /\ call.cur = 100
  /\ call.divisor = 5 /\ ~call.fallback
  /\ \E t \in vbl : t.sequence = 103 /\ t.type = "ABSOLUTE"
                    /\ ev[t.info].type \in {DRI2_SWAP, DRI2_WAITMSC}

\* the step is the vblank callback or the flip completion of frame event e
Completes(e) ==
  /\ ~aborted'
  /\ \/ \E t \in vbl \ vbl' : t.info = e
     \/ hist'.flipevents[e] # hist.flipevents[e]

\* the completion calls made in the step
NewDone == (Len(done) + 1)..Len(done')

\* the completion freed event e, or queued it again (a flip submitted, a busy
\* blit postponed by one vblank)
FreedOrQueued(e) ==
  ev'[e].live => \/ \E t \in vbl' : t.info = e
                 \/ \E i \in 1..Len(flipq') : flipq'[i] = e

\* C18 as stated: the completion of a frame event whose client has gone frees
\* the event and calls neither DRI2SwapComplete nor DRI2WaitMSCComplete.
C18_GoneClientNoCompletionCall ==
  [][\A e \in 1..Len(ev) :
       (ev[e].live /\ ev[e].client = 0 /\ Completes(e))
         => FreedOrQueued(e) /\ done' = done]_vars

\* C18 amended: the completion of a frame event whose client has gone delivers
\* nothing to a client: DRI2WaitMSCComplete is not called, and where
\* DRI2SwapComplete is called for the event it is with a NULL client and a NULL
\* callback.  The event is freed unless the completion queued it again (a
\* flip submitted, a busy blit postponed by one vblank).
C18_GoneClientNotNotified ==
  [][\A e \in 1..Len(ev) :
       (ev[e].live /\ ev[e].client = 0 /\ Completes(e))
         => /\ \A i \in NewDone :
                 (done'[i].client = 0 \/ done'[i].data = ev[e].event_data)
                   => /\ done'[i].client = 0 /\ done'[i].func = 0
                      /\ done'[i].type # "MSC"
            /\ ev[e].type = DRI2_WAITMSC => done' = done
            /\ FreedOrQueued(e)]_vars

\* a swap and a wait whose client went away before their vblank: the swap
\* completed with a NULL client and callback, the wait not at all, both freed
C18_Witness ==
  \E e \in 1..Len(ev), w \in 1..Len(ev) :
    /\ ~ev[e].live /\ ev[e].client = 0 /\ ev[e].type = DRI2_SWAP_THROTTLE
    /\ ~ev[w].live /\ ev[w].client = 0 /\ ev[w].type = DRI2_WAITMSC
    /\ vbl = {} /\ Len(done) = 1
    /\ done[1].data = ev[e].event_data
    /\ done[1].client = 0 /\ done[1].func = 0
    /\ ~clients[ClientOf(ev[e].drawable_id)]

\* the references held on buffer b drop by n in the step
Released(b, n) == b # 0 => buf'[b].refcnt = buf[b].refcnt - n

\* C19: the vblank callback or flip completion of a frame event whose drawable
\* is gone (drawable_id cleared, or the lookup fails) exchanges, copies and
\* flips nothing, sends no completion, and frees the event, which drops its
\* references on the front and the back buffer.
C19_GoneDrawableOnlyFreed ==
  [][\A e \in 1..Len(ev) :
       (/\ ev[e].live /\ ~dixLookupDrawable(Cur, ev[e].drawable_id)
        /\ Completes(e))
         => /\ ~ev'[e].live
            /\ done' = done
            /\ hist'.copies = hist.copies /\ hist'.submits = hist.submits
            /\ flipq' = flipq \/ flipq' = Tail(flipq)
            /\ vbl' \subseteq vbl
            /\ pix' = pix
            /\ \A b \in DOMAIN buf : buf'[b].name = buf[b].name
            /\ IF ev[e].front = ev[e].back THEN Released(ev[e].front, 2)
               ELSE Released(ev[e].front, 1) /\ Released(ev[e].back, 1)]_vars

\* a swap waiting for its frame whose window was destroyed: its vblank has
\* fired, nothing was copied or signalled, the event and its buffers are gone
C19_Witness ==
  /\ nreq = 1 /\ done = <<>> /\ vbl = {} /\ hist.copies[1] = 0
  /\ Len(ev) = 1 /\ ~ev[1].live /\ ev[1].drawable_id = 0
  /\ ev[1].type = DRI2_SWAP /\ ~alive[Req(1).draw]
  /\ buf[ev[1].front].refcnt = 0 /\ buf[ev[1].back].refcnt = 0

\* C20: the client-gone callback clears the client of every frame event of
\* that client and the drawable-gone callback the drawable_id of every frame
\* event of that drawable (which takes the event off that list); the events
\* are otherwise left as they are (not freed, same type, chain, buffers,
\* count), the events of other clients and drawables are not touched, and
\* nothing is armed, flipped or signalled.
C20_GoneCallbacksOnlyClear ==
  [][/\ \A c \in Drawables :
          (clients[c] /\ ~clients'[c] /\ ~aborted')
            => /\ ev' = [e \in DOMAIN ev |->
                           IF ev[e].live /\ ev[e].client = c
                           THEN [ev[e] EXCEPT !.client = 0] ELSE ev[e]]
               /\ UNCHANGED <<buf, bo, pix, flip_pending, flipq, vbl, done>>
     /\ \A d \in Drawables :
          (alive[d] /\ ~alive'[d] /\ ~aborted')
            => /\ ev' = [e \in DOMAIN ev |->
                           IF ev[e].live /\ ev[e].drawable_id = d
                           THEN [ev[e] EXCEPT !.drawable_id = 0] ELSE ev[e]]
               /\ UNCHANGED <<flip_pending, flipq, vbl, done>>]_vars

\* after a client has gone: a pending event of that client without client,
\* a pending event of the other client with its client
C20_Witness ==
  \E e \in 1..Len(ev), o \in 1..Len(ev) :
    /\ ev[e].live /\ ev[e].client = 0 /\ ev[e].drawable_id # 0
    /\ ~clients[ClientOf(ev[e].drawable_id)]
    /\ ev[o].live /\ ev[o].client # 0 /\ clients[ev[o].client]
    /\ \E t \in vbl : t.info = e

\* frame event e is the token of an armed vblank or of a submitted flip
\* whose completion has not been delivered
Registered(e) ==
  \/ \E t \in vbl : t.info = e
  \/ \E i \in 1..Len(flipq) : flipq[i] = e

\* C21: in every reachable state each outstanding vblank or flip token refers
\* to a frame event that has not been freed (an event is freed by its own
\* callback, which has consumed the token, or without a token).
C21_TokensReferToLiveEvents ==
  \A e \in 1..Len(ev) : Registered(e) => ev[e].live

\* a fired event freed, its chained successor armed in its place
C21_Witness ==
  \E e \in 1..Len(ev), n \in 1..Len(ev) :
    /\ ~ev[e].live /\ ev[n].live /\ e # n
    /\ [info |-> n, type |-> "RELATIVE", sequence |-> 0] \in vbl
    /\ ev[e].front = ev[n].front /\ buf[ev[n].front].chain = n

\* all requests so far were swaps with divisor 0 of the off-screen pixmap d
PixmapSwapsOnly(d) ==
  /\ alive[d] /\ cfg[d].type = DRAWABLE_PIXMAP
  /\ nreq >= 1 /\ hist.waits = 0
  /\ \A r \in 1..nreq : Req(r).draw = d /\ Req(r).divisor = 0

\* C22: consecutive swaps with divisor 0 of an off-screen pixmap complete
\* inside sna_dri_schedule_swap: each exchanges the buffers and signals
\* EXCHANGE_COMPLETE with the request's callback, returns TRUE, arms no vblank,
\* submits no flip, copies nothing and creates no frame event; after one
\* request front and back have changed storage, after two they are on their
\* original storage again, as is the pixmap (and so on by parity).
C22_PixmapSwapsSynchronous ==
  \A d \in Drawables :
    PixmapSwapsOnly(d) =>
      /\ ev = <<>> /\ vbl = {} /\ flipq = <<>>
      /\ \A r \in 1..nreq : hist.copies[r] = 0 /\ Req(r).pipe = -1
      /\ call.ret /\ ~call.fallback
      /\ done = [r \in 1..nreq |->
                   [client |-> ClientOf(d), draw |-> d,
                    type |-> DRI2_EXCHANGE_COMPLETE, func |-> r, data |-> r]]
      /\ LET f0 == InitBuf(d, cfg[d])[Front(d)]
             b0 == InitBuf(d, cfg[d])[Back(d)]
             f == IF nreq % 2 = 1 THEN b0 ELSE f0
             b == IF nreq % 2 = 1 THEN f0 ELSE b0
         IN /\ buf[Front(d)].bo = f.bo /\ buf[Front(d)].name = f.name
            /\ buf[Back(d)].bo = b.bo /\ buf[Back(d)].name = b.name
            /\ pix[cfg[d].pixmap].gpu_bo = f.bo

C22_Witness ==
  \E d \in Drawables :
    /\ PixmapSwapsOnly(d) /\ nreq = 2 /\ Len(done) = 2
    /\ buf[Front(d)].bo = PixBo(cfg[d].pixmap)
    /\ buf[Back(d)].bo = BackBo(d)

\* the step is the vblank callback of throttle event e, which hands the
\* buffer over to its chained successor and is freed
ChainedFire(e) ==
  /\ ev[e].live /\ ev[e].chain # 0 /\ ev[e].drawable_id # 0
  /\ ev[e].type \in {DRI2_SWAP_THROTTLE, DRI2_XCHG_THROTTLE}
  /\ \E t \in vbl \ vbl' : t.info = e
  /\ ~aborted' /\ ~ev'[e].live

\* C23: when the vblank of a pending throttle event fires with a chained
\* successor, the successor's swap is an exchange exactly if can_exchange
\* holds of the drawable and the successor's buffers at that moment, and a
\* blit otherwise.
C23_SuccessorOperationRechecked ==
  [][\A e \in 1..Len(ev) :
       ChainedFire(e) =>
         LET n == ev[e].chain
         IN \E i \in NewDone :
              /\ done'[i].data = ev[n].event_data
              /\ done'[i].type = DRI2_EXCHANGE_COMPLETE
                   <=> can_exchange(Cur, ev[e].drawable_id,
                                    ev[n].front, ev[n].back)]_vars

\* the flips submitted for frame event e so far
Submits(h, e) == IF e \in DOMAIN h.submits THEN h.submits[e] ELSE 0

FlipEvents(h, e) == IF e \in DOMAIN h.flipevents THEN h.flipevents[e] ELSE 0

\* the step leaves handle b on its storage
SameStorage(b) == buf'[b].bo = buf[b].bo /\ buf'[b].name = buf[b].name

\* the step is a request or a vblank callback in which sna_dri_page_flip
\* queued a flip for frame event e
PageFlipped(e) ==
  /\ ~aborted' /\ Submits(hist', e) = Submits(hist, e) + 1
  /\ FlipEvents(hist', e) = FlipEvents(hist, e)

\* the step is a request in which sna_dri_page_flip was refused for the new
\* frame event e
PageFlipRefusedInRequest(e) ==
  /\ ~aborted' /\ nreq' = nreq + 1 /\ hist'.reqs[nreq'].fail = "flip"
  /\ e \in (Len(ev) + 1)..Len(ev')
  /\ ev'[e].type \in {DRI2_FLIP, DRI2_FLIP_THROTTLE} /\ ~ev'[e].live
  /\ ev'[e].count = 0

\* the step is the vblank callback of the DRI2_FLIP event e, which could
\* still flip, and sna_dri_page_flip was refused
PageFlipRefusedInHandler(e) ==
  /\ ~aborted' /\ e \in 1..Len(ev) /\ ev[e].live /\ ev[e].type = DRI2_FLIP
  /\ \E t \in vbl \ vbl' : t.info = e
  /\ dixLookupDrawable(Cur, ev[e].drawable_id)
  /\ can_flip(Cur, ev[e].drawable_id, ev[e].front, ev[e].back)
  /\ Submits(hist', e) = Submits(hist, e)

\* the step is the completion of the DRI2_FLIP_THROTTLE event e with another
\* frame waiting, and sna_dri_flip_continue was refused
FlipContinueRefused(e) ==
  /\ ~aborted' /\ e \in 1..Len(ev) /\ ev[e].live
  /\ ev[e].type = DRI2_FLIP_THROTTLE /\ ev[e].next_front.name # 0
  /\ FlipEvents(hist', e) = FlipEvents(hist, e) + 1
  /\ dixLookupDrawable(Cur, ev[e].drawable_id)
  /\ can_flip(Cur, ev[e].drawable_id, ev[e].front, ev[e].back)
  /\ Submits(hist', e) = Submits(hist, e)

\* C24: a step in which sna_dri_page_flip queues a flip ends with the screen
\* pixmap and the front handle on the storage the back handle had, the
\* previous front's name and bo recorded in old_front (the vblank callback
\* hands that bo on to the back handle at once), and the completion still
\* outstanding.  A step in which the flip is refused (count 0) leaves the
\* front and back handles' bo and name, old_front, the screen pixmap's bo and
\* the pending-flip slot as they were (sna_dri_flip_continue is entered with
\* the slot already cleared, and leaves it cleared).
C24_FlipSwitchesFrontAtSubmission ==
  [][\A e \in 1..Len(ev') :
       LET f == ev'[e].front
           b == ev'[e].back
       IN /\ PageFlipped(e) =>
               /\ pix'[SnaFront].gpu_bo = buf[b].bo
               /\ buf'[f].bo = buf[b].bo /\ buf'[f].name = buf[b].name
               /\ ev'[e].old_front.name = buf[f].name
               /\ \/ ev'[e].old_front.bo = buf[f].bo
                  \/ /\ \E t \in vbl \ vbl' : t.info = e
                     /\ ev'[e].old_front.bo = 0
                     /\ buf'[b].bo = buf[f].bo /\ buf'[b].name = buf[f].name
               /\ ev'[e].live /\ \E i \in 1..Len(flipq') : flipq'[i] = e
          /\ PageFlipRefusedInRequest(e) =>
               /\ SameStorage(f) /\ SameStorage(b)
               /\ ev'[e].old_front = [bo |-> 0, name |-> 0]
               /\ pix'[SnaFront].gpu_bo = pix[SnaFront].gpu_bo
               /\ flip_pending' = flip_pending
          /\ PageFlipRefusedInHandler(e) =>
               /\ SameStorage(f) /\ SameStorage(b)
               /\ ev'[e].old_front = ev[e].old_front
               /\ pix'[SnaFront].gpu_bo = pix[SnaFront].gpu_bo
               /\ flip_pending' = flip_pending
          /\ FlipContinueRefused(e) =>
               /\ SameStorage(f) /\ SameStorage(b)
               /\ ev'[e].old_front.name = ev[e].old_front.name
               /\ pix'[SnaFront].gpu_bo = pix[SnaFront].gpu_bo
               /\ flip_pending' = 0]_vars

\* a flip queued by a request and not yet completed: the front handle and the
\* screen are on the storage that was the back buffer's
C24_Witness ==
  \E e \in 1..Len(ev) :
    /\ ev[e].live /\ hist.submits[e] = 1 /\ hist.flipevents[e] = 0
    /\ \E i \in 1..Len(flipq) : flipq[i] = e
    /\ buf[ev[e].front].bo = BackBo(ev[e].drawable_id)
    /\ pix[SnaFront].gpu_bo = BackBo(ev[e].drawable_id)
    /\ ev[e].old_front.bo = ScreenBo

\* a request whose flip was refused: the handles are where they were
C24_WitnessRefused ==
  \E e \in 1..Len(ev) :
    /\ ~ev[e].live /\ ev[e].type = DRI2_FLIP_THROTTLE /\ ev[e].count = 0
    /\ hist.submits[e] = 0 /\ nreq = 1 /\ hist.reqs[1].fail = "flip"
    /\ buf[ev[e].front].bo = ScreenBo /\ pix[SnaFront].gpu_bo = ScreenBo

\* the live frame events that store handle b, counted once per field
Holders(b) ==
  Cardinality({e \in 1..Len(ev) : ev[e].live /\ ev[e].front = b})
  + Cardinality({e \in 1..Len(ev) : ev[e].live /\ ev[e].back = b})

\* C25: in every reachable state a buffer handle's reference count is at
\* least the number of live frame events that store it, no live frame event
\* stores a destroyed handle (count zero), and a handle that is not destroyed
\* still holds its bo: the bo is released only with the last reference.
C25_HandlesOutliveTheirEvents ==
  /\ \A b \in DOMAIN buf : buf[b].refcnt >= Holders(b)
  /\ \A e \in 1..Len(ev) :
       ev[e].live => \A b \in {ev[e].front, ev[e].back} \ {0} :
                       buf[b].refcnt > 0
  /\ ~aborted => \A b \in DOMAIN buf :
                   buf[b].refcnt > 0 =>
                     buf[b].bo # 0 /\ bo[buf[b].bo].refcnt > 0

\* the drawable is gone and DRI2 has dropped its references: the handles live
\* on for the one frame event that stores them
C25_Witness ==
  \E d \in Drawables, e \in 1..Len(ev) :
    /\ ~alive[d] /\ ev[e].live
    /\ ev[e].front = Front(d) /\ ev[e].back = Back(d)
    /\ Holders(Front(d)) = 1 /\ buf[Front(d)].refcnt = 1
    /\ Holders(Back(d)) = 1 /\ buf[Back(d)].refcnt = 1

\* ---- buffer handles on their own: DRI2 creates, references and destroys
\* the handles of the drawables, a window changes its pixmap when it is
\* redirected, the dri_drawable_type resource is freed.  The heap of this
\* specification has, next to buf, bo, cfg and sna, the fields of struct
\* sna_pixmap that sna_pixmap_set_dri marks (flush, pinned), the count of
\* sna_accel_watch_flush (watch), the dri_drawable_type resource of every
\* drawable (res) and the references DRI2 holds on every handle (held).
MaxCreate == 3
MaxRef == 3

BufHeap ==
  [sna |-> sna, cfg |-> cfg, bo |-> bo, buf |-> buf, pix |-> pix,
   flush |-> xs.flush, pinned |-> xs.pinned, watch |-> xs.watch,
   res |-> xs.res, held |-> xs.held, ret |-> 0]

sna_accel_watch_flush(B, enable) == [B EXCEPT !.watch = @ + enable]

\* after sna_pixmap_force_to_gpu has succeeded
sna_pixmap_set_dri(B, pixmap) ==
  LET B1 == [B EXCEPT !.flush[pixmap] = @ + 1]
  IN IF B.flush[pixmap] # 0 THEN B1
     ELSE [sna_accel_watch_flush(B1, 1) EXCEPT !.pinned[pixmap] = TRUE]

\* sna_dri_destroy_buffer and the _sna_dri_destroy_buffer it calls, with the
\* pixmap's markings
sna_dri_destroy_buffer(B, b) ==
  IF b = 0 THEN B
  ELSE IF B.buf[b].refcnt - 1 = 0
       THEN LET p == B.buf[b].pixmap
                B1 == IF p # 0 /\ B.flush[p] # 0
                      THEN IF B.flush[p] - 1 = 0
                           THEN [sna_accel_watch_flush(
                                   [B EXCEPT !.flush[p] = 0], -1)
                                   EXCEPT !.pinned[p] = (p = B.sna.front)]
                           ELSE [B EXCEPT !.flush[p] = @ - 1]
                      ELSE B
            IN [kgem_bo_destroy(B1, B.buf[b].bo) EXCEPT !.buf[b].refcnt = 0]
       ELSE [B EXCEPT !.buf[b].refcnt = @ - 1]

BufFails == {"none", "nogpu", "nobo", "calloc", "flink"}

\* the part of sna_dri_create_buffer after the bo has been obtained
NewBuffer(B, d, attachment, pixmap, b, fail) ==
  IF fail \in {"calloc", "flink"}
  THEN [kgem_bo_destroy(B, b) EXCEPT !.ret = 0]
  ELSE LET h == Len(B.buf) + 1
           front == attachment = DRI2BufferFrontLeft
       IN [B EXCEPT !.buf = Append(@,
                      [name |-> kgem_bo_flink(b), attachment |-> attachment,
                       format |-> 24, refcnt |-> IF front THEN 2 ELSE 1,
                       pixmap |-> pixmap, bo |-> b, chain |-> 0,
                       width |-> IF pixmap # 0 THEN B.pix[pixmap].width ELSE 0,
                       height |-> IF pixmap # 0 THEN B.pix[pixmap].height ELSE 0]),
                    !.res[d] = IF front THEN h ELSE @,
                    !.held = Append(@, 1),
                    !.ret = h]

sna_dri_create_buffer(B, d, attachment, fail) ==
  IF attachment = DRI2BufferFrontLeft
  THEN LET pixmap == get_drawable_pixmap(B, d)
           buffer == B.res[d]
       IN IF /\ buffer # 0 /\ B.buf[buffer].pixmap = pixmap
             /\ B.buf[buffer].width = B.pix[pixmap].width
             /\ B.buf[buffer].height = B.pix[pixmap].height
          THEN [B EXCEPT !.buf[buffer].refcnt = @ + 1,
                         !.held[buffer] = @ + 1, !.ret = buffer]
          ELSE LET B1 == IF buffer # 0
                         THEN [sna_dri_destroy_buffer(B, buffer)
                                 EXCEPT !.res[d] = 0]
                         ELSE B
               IN IF fail = "nogpu" THEN B1
                  ELSE NewBuffer(ref(sna_pixmap_set_dri(B1, pixmap),
                                     B1.pix[pixmap].gpu_bo),
                                 d, attachment, pixmap,
                                 B1.pix[pixmap].gpu_bo, fail)
  ELSE IF fail = "nobo" THEN B
       ELSE LET B1 == kgem_create_2d(B, I915_TILING_X)
            IN NewBuffer(B1, d, attachment, 0, Len(B1.bo), fail)

InstallBuf(B) ==
  /\ buf' = B.buf /\ bo' = B.bo
  /\ xs' = [xs EXCEPT !.flush = B.flush, !.pinned = B.pinned,
                      !.watch = B.watch, !.res = B.res, !.held = B.held]

InitBuffers ==
  /\ sna = [vtSema |-> TRUE, no_flip |-> FALSE, no_wait |-> FALSE,
            shadow_active |-> FALSE, front |-> SnaFront]
  /\ cfg = [d \in Drawables |-> Config("clip", d)]
  /\ pix = [p \in 1..(NumDrawables + 1) |-> Pixmap(PixBo(p))]
  /\ bo = [b \in 1..(2 * NumDrawables + 1) |->
             [refcnt |-> 1, tiling |-> I915_TILING_X]]
  /\ buf = <<>>
  /\ Idle
  /\ xs = [flush |-> [p \in 1..(NumDrawables + 1) |-> 0],
           pinned |-> [p \in 1..(NumDrawables + 1) |-> p = SnaFront],
           watch |-> 0, res |-> [d \in Drawables |-> 0], held |-> <<>>,
           n |-> 0, failed |-> 0]

Untouched ==
  UNCHANGED <<sna, alive, clients, pix, ev, flip_pending, flipq, vbl, done,
              nreq, call, hist, assert_ok, aborted, nenv>>

CreateBuffer(d, attachment, fail) ==
  /\ xs.n < MaxCreate
  /\ fail = "nobo" => attachment # DRI2BufferFrontLeft
  /\ fail = "nogpu" => attachment = DRI2BufferFrontLeft
  /\ LET B == sna_dri_create_buffer(BufHeap, d, attachment, fail)
     IN /\ buf' = B.buf /\ bo' = B.bo
        /\ xs' = [flush |-> B.flush, pinned |-> B.pinned, watch |-> B.watch,
                  res |-> B.res, held |-> B.held, n |-> xs.n + 1,
                  failed |-> xs.failed + IF B.ret = 0 THEN 1 ELSE 0]
  /\ UNCHANGED cfg /\ Untouched

\* a frame event takes a reference
ReferenceBuffer(b) ==
  /\ b \in DOMAIN buf /\ xs.held[b] > 0 /\ buf[b].refcnt < MaxRef
  /\ InstallBuf([BufHeap EXCEPT !.buf[b].refcnt = @ + 1, !.held[b] = @ + 1])
  /\ UNCHANGED cfg /\ Untouched

\* DRI2 or a frame event gives up one of the references it holds
DestroyBuffer(b) ==
  /\ b \in DOMAIN buf /\ xs.held[b] > 0
  /\ InstallBuf([sna_dri_destroy_buffer(BufHeap, b) EXCEPT !.held[b] = @ - 1])
  /\ UNCHANGED cfg /\ Untouched

\* FreeResource of the drawable's dri_drawable_type: sna_dri_drawable_gone
FreeResource(d) ==
  /\ xs.res[d] # 0
  /\ InstallBuf([sna_dri_destroy_buffer(BufHeap, xs.res[d])
                   EXCEPT !.res[d] = 0])
  /\ UNCHANGED cfg /\ Untouched

\* the window is redirected to a pixmap of its own, or back to the screen
SetWindowPixmap(d) ==
  /\ cfg' = [cfg EXCEPT ![d] = IF cfg[d].pixmap = SnaFront
                               THEN Config("redir", d) ELSE Config("clip", d)]
  /\ UNCHANGED <<buf, bo, xs>> /\ Untouched

NextBuffers ==
  \/ \E d \in Drawables, a \in {DRI2BufferFrontLeft, DRI2BufferBackLeft},
        fail \in BufFails : CreateBuffer(d, a, fail)
  \/ \E b \in 1..MaxCreate : ReferenceBuffer(b)
  \/ \E b \in 1..MaxCreate : DestroyBuffer(b)
  \/ \E d \in Drawables : FreeResource(d)
  \/ \E d \in Drawables : SetWindowPixmap(d)

SpecBuffers == InitBuffers /\ [][NextBuffers]_vars

\* the handles attached to pixmap p as its front buffer that are not destroyed
FrontHandles(p) ==
  {b \in DOMAIN buf : /\ buf[b].refcnt > 0 /\ buf[b].pixmap = p
                      /\ buf[b].attachment = DRI2BufferFrontLeft}

\* C26: in every reachable state the flush counter of every pixmap is the
\* number of front-attached handles of that pixmap that are not destroyed,
\* and the flush watch is raised once for every pixmap whose counter is not
\* zero (so both are back at zero when every handle has been destroyed).
C26_FlushCountsFrontHandles ==
  /\ \A p \in DOMAIN xs.flush : xs.flush[p] = Cardinality(FrontHandles(p))
  /\ xs.watch = Cardinality({p \in DOMAIN xs.flush : xs.flush[p] # 0})

\* the step is a call of sna_dri_schedule_wait_msc
WaitRequestStep == ~aborted' /\ hist'.waits = hist.waits + 1

\* the step is the vblank callback of the DRI2_WAITMSC event e
WaitCallbackStep(e) ==
  /\ ~aborted' /\ ev[e].live /\ ev[e].type = DRI2_WAITMSC
  /\ \E t \in vbl \ vbl' : t.info = e

\* the step leaves the buffer handles, the bos, the pixmaps and the
\* pending-flip slot alone
BuffersUntouched ==
  buf' = buf /\ bo' = bo /\ pix' = pix /\ flip_pending' = flip_pending

\* the step made exactly one DRI2WaitMSCComplete call
OneMscComplete ==
  Len(done') = Len(done) + 1 /\ done'[Len(done')].type = "MSC"

\* C27: a call of sna_dri_schedule_wait_msc and the vblank callback of a
\* DRI2_WAITMSC frame event change no buffer handle (bo, name, reference
\* count, chain), no bo and not the pending-flip slot.  The request either
\* completes at once, or creates a frame event without buffers and arms one
\* vblank event for it with the client blocked; the callback completes the
\* wait (if client and drawable are still there) and frees the event.
C27_WaitMscLeavesBuffersAlone ==
  [][/\ WaitRequestStep =>
          /\ BuffersUntouched
          /\ \A e \in (Len(ev) + 1)..Len(ev') :
               /\ ev'[e].type = DRI2_WAITMSC
               /\ ev'[e].front = 0 /\ ev'[e].back = 0
          /\ \/ /\ OneMscComplete /\ vbl' = vbl
                /\ \A e \in (Len(ev) + 1)..Len(ev') : ~ev'[e].live
             \/ /\ done' = done /\ call'.blocked /\ Len(ev') = Len(ev) + 1
                /\ ev'[Len(ev')].live
                /\ \E t \in vbl' \ vbl :
                     vbl' = vbl \cup {t} /\ t.info = Len(ev')
     /\ \A e \in 1..Len(ev) :
          WaitCallbackStep(e) =>
            /\ BuffersUntouched
            /\ ~ev'[e].live /\ \A t \in vbl' : t.info # e
            /\ IF ev[e].client # 0 /\ dixLookupDrawable(Cur, ev[e].drawable_id)
               THEN OneMscComplete ELSE done' = done]_vars

\* a wait that was armed, has fired, was completed and freed, with a swap of
\* the same drawable still pending
C27_Witness ==
  \E e \in 1..Len(ev), s \in 1..Len(ev) :
    /\ ev[e].type = DRI2_WAITMSC /\ ~ev[e].live /\ call.blocked
    /\ \A t \in vbl : t.info # e
    /\ \E i \in 1..Len(done) : done[i].type = "MSC" /\ done[i].frame = ev[e].frame
    /\ ev[s].live /\ ev[s].front # 0 /\ buf[ev[s].front].refcnt = 3

\* the step is a flip-eligible swap request during which the allocation
\* named by fail was refused
AllocationFailureStep(fail) ==
  /\ nreq' = nreq + 1 /\ hist'.reqs[nreq'].flip
  /\ hist'.reqs[nreq'].fail = fail

\* every buffer handle that is not destroyed has a bo, and that bo exists
HandlesHaveStorage ==
  \A b \in DOMAIN buf' :
    buf'[b].refcnt > 0 => buf'[b].bo # 0 /\ bo'[buf'[b].bo].refcnt > 0

\* C28: a flip-eligible swap request during which calloc, the registration
\* of the frame event or the creation of the replacement back buffer fails
\* is completed by the synchronous fallback (sna_dri_schedule_flip having
\* returned FALSE), the server lives on, and every buffer handle still has
\* its storage.
C28_AllocationFailureFallsBack ==
  [][\A fail \in {"nomem", "nores", "nobo"} :
       AllocationFailureStep(fail) =>
         /\ ~aborted' /\ call'.ret /\ call'.fallback
         /\ hist'.copies[nreq'] = 1
         /\ HandlesHaveStorage]_vars

\* ---- the asynchronous swap of the source, the code between #if
\* USE_ASYNC_SWAP and #endif: one long-lived DRI2_ASYNC_FLIP frame event
\* occupies the pending-flip slot, the client's swaps replace the buffer it
\* will flip to next, every flip completion flips to the newest frame or
\* queues a no-op flip until off_delay runs out.  The frame events of this
\* specification have the fields cache and off_delay as well.  xs counts the
\* no-op flips queued since the last new frame.
DRI2_ASYNC_FLIP == "ASYNC_FLIP"
OffDelay == 5
MaxFrames == 2

AsyncInfo(client, front, back, pipe) ==
  NewInfo(DRI2_ASYNC_FLIP, 0, client, 0, front, back, pipe)
    @@ [cache |-> NoBuf, off_delay |-> 0]

\* sna_dri_frame_event_info_free with the cached bo of the asynchronous swap
AsyncFree(S, e) ==
  sna_dri_frame_event_info_free(
    sna_dri_frame_event_release_bo(S, S.ev[e].cache.bo), e)

\* sna_page_flip(sna, get_private(flip->front)->bo, flip, ...) as
\* sna_dri_flip_event calls it
AsyncPageFlip(S, e, count) ==
  IF count = 0 THEN [S EXCEPT !.ev[e].count = 0]
  ELSE [S EXCEPT !.ev[e].count = count,
                 !.flipq = @ \o Tokens(e, count),
                 !.hist.submits[e] = @ + 1]

\* the label finish_async_flip
finish_async_flip(S, e) ==
  AsyncFree([S EXCEPT !.ev[e].next_front.bo = 0, !.flip_pending = 0], e)

\* a variant that queues no-op flips without counting them
sna_dri_flip_event_async_forever(S, e, in) ==
  LET S0 == [S EXCEPT !.hist.flipevents[e] = @ + 1]
  IN IF in.count = 0 THEN finish_async_flip(S0, e)
     ELSE AsyncPageFlip(S0, e, in.count)

\* case DRI2_ASYNC_FLIP of sna_dri_flip_event
sna_dri_flip_event_async(S, e, in) ==
  LET S0 == Expect([S EXCEPT !.hist.flipevents[e] = @ + 1],
                   S.flip_pending = e)
      flip == S.ev[e]
  IN IF S.buf[flip.front].name # flip.next_front.name
     THEN LET S1 == [S0 EXCEPT !.ev[e].cache = flip.old_front,
                               !.ev[e].old_front = flip.next_front,
                               !.ev[e].next_front.bo = 0]
              S2 == AsyncPageFlip(S1, e, in.count)
          IN IF in.count = 0 THEN finish_async_flip(S2, e)
             ELSE [S2 EXCEPT !.ev[e].next_front =
                               [bo |-> S.buf[flip.front].bo,
                                name |-> S.buf[flip.front].name],
                             !.ev[e].off_delay = OffDelay]
     ELSE IF flip.off_delay - 1 # 0
     THEN LET S1 == [S0 EXCEPT !.ev[e].off_delay = @ - 1]
              S2 == AsyncPageFlip(S1, e, in.count)
          IN IF in.count = 0 THEN finish_async_flip(S2, e) ELSE S2
     ELSE finish_async_flip([S0 EXCEPT !.ev[e].off_delay = 0], e)

\* the label blit of sna_dri_async_swap
AsyncBlit(S, client, d, front, back, data) ==
  IF can_exchange(S, d, front, back)
  THEN Return(DRI2SwapComplete(sna_dri_exchange_buffers(S, d, front, back),
                               client, d, DRI2_EXCHANGE_COMPLETE, data, data),
              TRUE, 0)
  ELSE Return(DRI2SwapComplete(sna_dri_copy_to_front(S, data), client, d,
                               DRI2_BLIT_COMPLETE, data, data),
              FALSE, 0)

\* sna_dri_async_swap from "if (bo == NULL)" to the return: b, name are the
\* replacement back buffer found so far
AsyncTakeOver(S, client, d, info, b, name, data, in) ==
  IF b = 0 /\ in.fail = "nobo"
  THEN [S EXCEPT !.buf[S.ev[info].back].bo = 0, !.aborted = TRUE]
  ELSE LET S1 == IF b = 0 THEN kgem_create_2d(S, I915_TILING_X) ELSE S
           nb == IF b = 0 THEN Len(S1.bo) ELSE b
           nn == IF b = 0 THEN kgem_bo_flink(nb) ELSE name
           S2 == [S1 EXCEPT !.buf[S.ev[info].back].bo = nb,
                            !.buf[S.ev[info].back].name = nn]
           S3 == set_bo(S2, S.sna.front, S2.buf[S.ev[info].front].bo)
       IN Return(DRI2SwapComplete([S3 EXCEPT !.flip_pending = info],
                                  client, d, DRI2_EXCHANGE_COMPLETE,
                                  data, data),
                 TRUE, 0)

sna_dri_async_swap(S, client, d, front, back, data, in) ==
  LET info == S.flip_pending
      pipe == sna_dri_get_pipe(S, d)
      e == NewId(S)
  IN
  IF ~can_flip(S, d, front, back)
  THEN AsyncBlit(S, client, d, front, back, data)
  ELSE IF info = 0 THEN
    IF pipe = -1 \/ in.fail \in {"nomem", "nores"}
    THEN AsyncBlit(S, client, d, front, back, data)
    ELSE
      LET S1 == calloc(S, AsyncInfo(client, front, back, pipe))
          S2 == sna_dri_reference_buffer(sna_dri_reference_buffer(S1, front),
                                         back)
          count == IF in.fail = "flip" THEN 0 ELSE in.count
          S3 == sna_dri_page_flip(S2, e, count)
      IN IF count = 0
         THEN AsyncBlit(sna_dri_frame_event_info_free(S3, e),
                        client, d, front, back, data)
         ELSE AsyncTakeOver(
                [S3 EXCEPT !.ev[e].next_front =
                             [name |-> S3.buf[front].name,
                              bo |-> S3.buf[front].bo],
                           !.ev[e].off_delay = OffDelay],
                client, d, e, 0, 0, data, in)
  ELSE IF S.ev[info].type # DRI2_ASYNC_FLIP
  THEN AsyncBlit(S, client, d, front, back, data)
  ELSE
    LET i == S.ev[info]
        cached == i.next_front.name = S.buf[i.front].name
        name == IF cached THEN i.cache.name ELSE S.buf[i.front].name
        b == IF cached THEN i.cache.bo ELSE S.buf[i.front].bo
        S1 == [S EXCEPT !.buf[i.front].name = S.buf[i.back].name,
                        !.buf[i.front].bo = S.buf[i.back].bo]
    IN AsyncTakeOver(S1, client, d, info, b, name, data, in)

AsyncFails == {"none", "nomem", "nores", "flip", "nobo"}

InitAsync == InitHeap /\ xs = [noop |-> 0]

\* the client presents a frame
AsyncSwap(d) ==
  /\ ~aborted /\ nreq < MaxFrames /\ alive[d]
  /\ \E in \in [fail : AsyncFails, count : 1..MaxCrtc] :
       /\ in.fail # "none" =>
            /\ in.count = 1 /\ can_flip(Cur, d, Front(d), Back(d))
            /\ IF flip_pending = 0 THEN TRUE
               ELSE /\ in.fail = "nobo"
                    /\ ev[flip_pending].next_front.name
                         = buf[ev[flip_pending].front].name
                    /\ ev[flip_pending].cache.bo = 0
       /\ Commit(sna_dri_async_swap(
                   [Cur EXCEPT !.call = [NoCall EXCEPT !.data = nreq + 1,
                                                       !.draw = d,
                                                       !.fail = in.fail],
                               !.hist.copies = Append(@, 0)],
                   ClientOf(d), d, Front(d), Back(d), nreq + 1, in))
  /\ nreq' = nreq + 1
  /\ xs' = [noop |-> IF Len(ev') > Len(ev) THEN 0 ELSE xs.noop]
  /\ UNCHANGED nenv

\* sna_dri_page_flip_handler for the flips of the asynchronous swap
AsyncPageFlipHandler ==
  /\ ~aborted /\ flipq # <<>> /\ ev[Head(flipq)].live
  /\ LET e == Head(flipq)
         S1 == [Cur EXCEPT !.flipq = Tail(@), !.ev[e].count = @ - 1]
     IN /\ \E count \in 0..MaxCrtc :
             Commit(IF S1.ev[e].count # 0 THEN S1
                    ELSE sna_dri_flip_event_async(S1, e, [count |-> count]))
        /\ xs' = [noop |-> IF hist'.flipevents[e] = hist.flipevents[e]
                           THEN xs.noop
                           ELSE IF \/ buf[ev[e].front].name # ev[e].next_front.name
                                   \/ ~ev'[e].live
                                THEN 0 ELSE xs.noop + 1]
  /\ UNCHANGED <<nreq, nenv>>

NextAsync ==
  \/ \E d \in Drawables : AsyncSwap(d)
  \/ AsyncPageFlipHandler

SpecAsync == InitAsync /\ [][NextAsync]_vars

\* the step is a flip completion that ran sna_dri_flip_event on the
\* DRI2_ASYNC_FLIP event e
AsyncCompletion(e) ==
  /\ ~aborted' /\ ev[e].live /\ ev[e].type = DRI2_ASYNC_FLIP
  /\ hist'.flipevents[e] = hist.flipevents[e] + 1

\* the client has presented a frame since the last flip of e
NewFrame(e) == buf[ev[e].front].name # ev[e].next_front.name

\* C29: at a flip completion of the DRI2_ASYNC_FLIP event, either another
\* flip is queued and the event stays the pending flip, or the event is
\* freed and the pending-flip slot cleared.  A flip to a new frame sets
\* off_delay to 5; a no-op flip is queued only while off_delay is above 1 and
\* counts it down by one, so that at most 4 no-op flips follow one another;
\* at off_delay 1 without a new frame, or when the flip is refused, the event
\* is freed.  A new event starts with off_delay 5.
C29_AsyncFlipQuiesces ==
  [][/\ \A e \in 1..Len(ev) :
          AsyncCompletion(e) =>
            IF hist'.submits[e] = hist.submits[e] + 1
            THEN /\ ev'[e].live /\ flip_pending' = e
                 /\ IF NewFrame(e)
                    THEN ev'[e].off_delay = OffDelay /\ xs'.noop = 0
                    ELSE /\ ev[e].off_delay > 1
                         /\ ev'[e].off_delay = ev[e].off_delay - 1
                         /\ xs'.noop = xs.noop + 1
                         /\ xs'.noop <= OffDelay - 1
            ELSE /\ hist'.submits[e] = hist.submits[e]
                 /\ ~ev'[e].live /\ flip_pending' = 0
                 /\ \A i \in 1..Len(flipq') : flipq'[i] # e
     /\ \A e \in (Len(ev) + 1)..Len(ev') :
          (~aborted' /\ ev'[e].live) =>
            ev'[e].type = DRI2_ASYNC_FLIP /\ ev'[e].off_delay = OffDelay]_vars

\* the event has queued its first flip and four no-op flips, and was freed at
\* the fifth completion with the slot cleared
C29_Witness ==
  \E e \in 1..Len(ev) :
    /\ ev[e].type = DRI2_ASYNC_FLIP /\ ~ev[e].live /\ ev[e].off_delay = 0
    /\ hist.submits[e] = OffDelay /\ hist.flipevents[e] = OffDelay
    /\ flip_pending = 0 /\ flipq = <<>> /\ ~aborted

\* ---- the region copies on their own.  A region is the set of the pixels
\* <<x, y>> it covers; the drawable of the calls is drawable 1, a window with
\* a clip list in screen coordinates or a pixmap, on a pixmap at the origin
\* of the screen (get_drawable_deltas answers 0, 0).  A call answers the
\* copy_boxes and damage calls it made and the pixels of the boxes it passed
\* to copy_boxes; xs holds the last call.
\* RegionPtr: NULL, or the pixels of the region
NoRegion == [null |-> TRUE, rects |-> {}]

Box(x1, y1, x2, y2) == (x1..(x2 - 1)) \X (y1..(y2 - 1))

pixman_region_translate(r, dx, dy) == {<<c[1] + dx, c[2] + dy>> : c \in r}

\* win->clipList.data || the extents of win->clipList are not of the size of
\* the drawable (pixman keeps data NULL for a region of exactly one box)
Clipped(draw) ==
  LET r == draw.clipList
      xs1 == {c[1] : c \in r}
      ys1 == {c[2] : c \in r}
      x1 == CHOOSE v \in xs1 : \A w \in xs1 : v <= w
      x2 == 1 + CHOOSE v \in xs1 : \A w \in xs1 : v >= w
      y1 == CHOOSE v \in ys1 : \A w \in ys1 : v <= w
      y2 == 1 + CHOOSE v \in ys1 : \A w \in ys1 : v >= w
  IN IF r = {} THEN TRUE
     ELSE \/ r # Box(x1, y1, x2, y2)
          \/ x2 - x1 # draw.width \/ y2 - y1 # draw.height

AllClipped == [copies |-> 0, damage |-> 0, boxes |-> {}]

\* a variant that copies whatever is left of the region
sna_dri_copy_to_front_region_any(draw, region) ==
  LET bounds == Box(draw.x, draw.y, draw.x + draw.width, draw.y + draw.height)
      clip == IF region.null THEN bounds
              ELSE bounds \cap pixman_region_translate(region.rects,
                                                         draw.x, draw.y)
  IN [copies |-> 1, damage |-> 1,
      boxes |-> IF draw.type # DRAWABLE_PIXMAP /\ Clipped(draw)
                THEN draw.clipList \cap clip ELSE clip]

\* sna_dri_copy_to_front called with a region or with NULL
sna_dri_copy_to_front_region(draw, region) ==
  LET bounds == Box(draw.x, draw.y, draw.x + draw.width, draw.y + draw.height)
      clip == IF region.null THEN bounds
              ELSE bounds \cap pixman_region_translate(region.rects,
                                                         draw.x, draw.y)
  IN IF ~region.null /\ clip = {} THEN AllClipped
     ELSE IF draw.type # DRAWABLE_PIXMAP /\ Clipped(draw)
     THEN IF draw.clipList \cap clip = {} THEN AllClipped
          ELSE [copies |-> 1, damage |-> 1, boxes |-> draw.clipList \cap clip]
     ELSE [copies |-> 1, damage |-> 1, boxes |-> clip]

sna_dri_copy_from_front(draw, region) ==
  LET box == Box(draw.x, draw.y, draw.x + draw.width, draw.y + draw.height)
      clip == IF region.null THEN box
              ELSE box \cap pixman_region_translate(region.rects,
                                                      draw.x, draw.y)
  IN IF ~region.null /\ clip = {} THEN AllClipped
     ELSE IF draw.type # DRAWABLE_PIXMAP
     THEN IF draw.clipList \cap clip = {} THEN AllClipped
          ELSE [copies |-> 1, damage |-> 0, boxes |-> draw.clipList \cap clip]
     ELSE [copies |-> 1, damage |-> 0, boxes |-> clip]

sna_dri_copy(draw, region) ==
  LET box == Box(0, 0, draw.width, draw.height)
  IN IF region.null THEN [copies |-> 1, damage |-> 0, boxes |-> box]
     ELSE IF box \cap region.rects = {} THEN AllClipped
     ELSE [copies |-> 1, damage |-> 0, boxes |-> box \cap region.rects]

InitCopy ==
  \E ty \in {DRAWABLE_WINDOW, DRAWABLE_PIXMAP},
     x0 \in 0..(ScreenW - 1), y0 \in 0..(ScreenH - 1),
     w \in 1..ScreenW, h \in 1..ScreenH :
    /\ x0 + w <= ScreenW /\ y0 + h <= ScreenH
    /\ ty = DRAWABLE_PIXMAP => x0 = 0 /\ y0 = 0
    /\ \E clip \in SUBSET Box(x0, y0, x0 + w, y0 + h) :
         /\ ty = DRAWABLE_PIXMAP => clip = Box(0, 0, w, h)
         /\ cfg = [d \in Drawables |->
                     IF d = 1
                     THEN [type |-> ty, x |-> x0, y |-> y0, width |-> w,
                           height |-> h, clipList |-> clip,
                           pixmap |-> SnaFront,
                           crtc |-> IF ty = DRAWABLE_PIXMAP THEN -1 ELSE 0]
                     ELSE Config("clip", d)]
    /\ sna = [vtSema |-> TRUE, no_flip |-> FALSE, no_wait |-> FALSE,
              shadow_active |-> FALSE, front |-> SnaFront]
    /\ pix = [p \in 1..(NumDrawables + 1) |-> Pixmap(PixBo(p))]
    /\ bo = InitBo([d \in Drawables |-> Config("clip", d)])
    /\ buf = [b \in 1..(2 * NumDrawables) |->
                InitBuf((b + 1) \div 2, Config("clip", (b + 1) \div 2))[b]]
    /\ Idle
    /\ xs = [fn |-> "none", region |-> NoRegion, out |-> AllClipped]

\* sna_dri_copy_region: one of the three copies, by the attachments
CopyRegion(fn, region) ==
  /\ xs' = [fn |-> fn, region |-> region,
            out |-> CASE fn = "to_front" ->
                           sna_dri_copy_to_front_region(cfg[1], region)
                      [] fn = "from_front" ->
                           sna_dri_copy_from_front(cfg[1], region)
                      [] OTHER -> sna_dri_copy(cfg[1], region)]
  /\ UNCHANGED <<sna, cfg, alive, clients, pix, bo, buf, ev, flip_pending,
                 flipq, vbl, done, nreq, call, hist, assert_ok, aborted, nenv>>

NextCopy ==
  \E fn \in {"to_front", "from_front", "copy"},
     region \in {NoRegion}
                \cup [null : {FALSE}, rects : SUBSET Box(0, 0, ScreenW, ScreenH)] :
    CopyRegion(fn, region)

SpecCopy == InitCopy /\ [][NextCopy]_vars

\* what is left of the last call's region after clipping to the drawable
\* and, if clipped is TRUE and the drawable is a window, to its clip list;
\* in the coordinates the function computes in
AfterClipping(clipped) ==
  LET draw == cfg[1]
      ox == IF xs.fn = "copy" THEN 0 ELSE draw.x
      oy == IF xs.fn = "copy" THEN 0 ELSE draw.y
      bounds == Box(ox, oy, ox + draw.width, oy + draw.height)
      region == IF xs.region.null THEN bounds
                ELSE pixman_region_translate(xs.region.rects, ox, oy)
      clip == IF clipped /\ draw.type = DRAWABLE_WINDOW
              THEN pixman_region_translate(draw.clipList,
                                           ox - draw.x, oy - draw.y)
              ELSE bounds
  IN bounds \cap region \cap clip

\* the last call did what is to be done with the pixels r
CopiesExactly(r) ==
  IF r = {} THEN xs.out = AllClipped
  ELSE xs.out.copies = 1 /\ xs.out.boxes = r

\* C30 as stated: each of the three copies does nothing when drawable
\* bounds, region and window clip list have no pixel in common, and
\* otherwise makes one copy_boxes call for the pixels they have in common.
C30_EmptyAfterClippingIsNoOp ==
  xs.fn # "none" => CopiesExactly(AfterClipping(TRUE))

\* C30 amended: so for sna_dri_copy_to_front and sna_dri_copy_from_front;
\* sna_dri_copy does so for drawable bounds and region only, the clip list
\* of the window plays no part in it.
C30_EmptyAfterClippingIsNoOpButCopy ==
  xs.fn # "none" => CopiesExactly(AfterClipping(xs.fn # "copy"))

\* a region inside the window, wholly outside its non-empty clip list:
\* sna_dri_copy_to_front copied nothing and posted no damage
C30_Witness ==
  /\ xs.fn = "to_front" /\ ~xs.region.null
  /\ cfg[1].type = DRAWABLE_WINDOW /\ cfg[1].clipList # {}
  /\ AfterClipping(FALSE) # {} /\ AfterClipping(TRUE) = {}
  /\ xs.out.copies = 0 /\ xs.out.damage = 0

\* ---- the pending pointer of a front buffer (sna_dri_private.chain)
\* C31: in every reachable state the pending pointer of every buffer that is
\* still allocated is NULL or refers to a frame event that has not been freed,
\* is of a throttle type and has a vblank armed for it; it never keeps
\* referring to an event that was freed.
C31_PendingPointerLive ==
  \A b \in DOMAIN buf :
    (buf[b].refcnt > 0 /\ buf[b].chain # 0) =>
      /\ ev[buf[b].chain].live
      /\ ev[buf[b].chain].type \in {DRI2_SWAP_THROTTLE, DRI2_XCHG_THROTTLE}
      /\ \E t \in vbl : t.info = buf[b].chain

\* ---- no frame event leaks.  Interrupts are delivered: the drawables issue
\* up to MaxReq immediate requests, a drawable may be destroyed, and an armed
\* vblank event and a submitted flip do fire (the kernel queues one event per
\* token, the server's wakeup handler reads them and calls the two handlers)
NextLive ==
  \/ \E d \in Drawables, t \in Targets : ScheduleSwap(d, t, 0, 0)
  \/ \E tok \in vbl : VblankHandler(tok)
  \/ PageFlipHandler
  \/ \E d \in Drawables : DrawableGone(d)

SpecLive ==
  /\ Init /\ [][NextLive]_vars
  /\ WF_vars(\E tok \in vbl : VblankHandler(tok))
  /\ WF_vars(PageFlipHandler)

\* C32: no frame event leaks when interrupts are delivered. A frame event is
\* freed only by the callback of its own vblank or flip, or by the callback of
\* the pending event it is chained behind, which arms a vblank for it. So in
\* every reachable state each frame event that is not freed yet has a vblank
\* armed or a flip submitted, or is the chained successor of such an event;
\* an event of which neither holds is never freed, whatever fires later.
C32_EveryEventAwaitsAnInterrupt ==
  \A e \in 1..Len(ev) :
    ev[e].live =>
      \/ Registered(e)
      \/ \E h \in 1..Len(ev) : ev[h].live /\ Registered(h) /\ ev[h].chain = e

\* ---- the occupant of the pending-flip slot at flip completion
\* C33: whenever sna_dri_flip_event runs for a DRI2_FLIP_THROTTLE frame
\* event, that event is the occupant of the pending-flip slot
\* (assert(sna->dri.flip_pending == flip)), whatever the interleaving of swap
\* requests and flip completions.
C33_CompletedThrottleIsPending ==
  [][\A e \in 1..Len(ev) :
       (/\ hist'.flipevents[e] # hist.flipevents[e]
        /\ ev[e].type = DRI2_FLIP_THROTTLE)
       => flip_pending = e]_vars

\* ---- the frame a deferred flip is armed for
\* C34: after sna_dri_schedule_flip accepted a request with divisor > 0, the
\* vblank event is armed one frame before the frame reported to the caller:
\* armed sequence + 1 = *target_msc = info->frame, when target_msc is still
\* to come and when it has been missed.
C34_FlipArmedOneFrameEarly ==
  (/\ nreq = 1 /\ ~aborted /\ Req(1).flip /\ Mask32(call.divisor) # 0
   /\ call.ret /\ ~call.fallback)
  => /\ Len(ev) = 1 /\ ev[1].type = DRI2_FLIP
     /\ ev[1].frame = call.target_msc
     /\ \A t \in vbl : Mask32(t.sequence + 1) = call.target_msc

\* ---- a deferred flip at its vblank
\* the step is the vblank callback of the DRI2_FLIP event e, its drawable
\* still there
FlipVblankStep(e) ==
  /\ ~aborted' /\ ev[e].live /\ ev[e].type = DRI2_FLIP
  /\ \E t \in vbl \ vbl' : t.info = e
  /\ dixLookupDrawable(Cur, ev[e].drawable_id)

\* the step made exactly one DRI2SwapComplete call, of the given type, for
\* request r
OneSwapComplete(type, r) ==
  /\ Len(done') = Len(done) + 1
  /\ done'[Len(done')].type = type /\ done'[Len(done')].data = r

\* C35: the vblank callback of a DRI2_FLIP frame event checks can_flip again
\* and does one of two things. Either can_flip holds and the flip is
\* submitted: front and back handle exchange their storage, nothing is
\* copied, nothing is signalled, and the event lives on until its flip
\* completion, which signals FLIP_COMPLETE once and frees it. Or it copies
\* back to front once, becomes a DRI2_SWAP_THROTTLE event, submits no flip
\* and is freed with one BLIT_COMPLETE (in the same callback, or, the copy
\* being busy, in a later one that copies nothing). No deferred request is
\* both copied and flipped, copied twice or signalled twice.
C35_DeferredFlipFlipsOrBlits ==
  /\ [][\A e \in 1..Len(ev) :
          FlipVblankStep(e) =>
            LET f == ev[e].front
                b == ev[e].back
                r == ev[e].event_data
            IN IF PageFlipped(e)
               THEN /\ can_flip(Cur, ev[e].drawable_id, f, b)
                    /\ ev'[e].live /\ ev'[e].type = DRI2_FLIP
                    /\ \E i \in 1..Len(flipq') : flipq'[i] = e
                    /\ buf'[b].bo = buf[f].bo /\ buf'[b].name = buf[f].name
                    /\ buf'[f].bo = buf[b].bo /\ buf'[f].name = buf[b].name
                    /\ hist'.copies = hist.copies /\ done' = done
               ELSE /\ hist'.copies[r] = hist.copies[r] + 1
                    /\ flipq' = flipq /\ SameStorage(f) /\ SameStorage(b)
                    /\ ev'[e].type = DRI2_SWAP_THROTTLE
                    /\ IF ev'[e].live
                       THEN /\ done' = done
                            /\ [info |-> e, type |-> "RELATIVE",
                                sequence |-> 1] \in vbl'
                       ELSE OneSwapComplete(DRI2_BLIT_COMPLETE, r)]_vars
  /\ [][\A e \in 1..Len(ev) :
          (/\ ~aborted' /\ ev[e].live /\ ev[e].type = DRI2_FLIP
           /\ hist'.flipevents[e] = hist.flipevents[e] + 1)
          => /\ ~ev'[e].live /\ hist'.copies = hist.copies
             /\ IF dixLookupDrawable(Cur, ev[e].drawable_id)
                THEN OneSwapComplete(DRI2_FLIP_COMPLETE, ev[e].event_data)
                ELSE done' = done]_vars
  /\ [][\A e \in 1..Len(ev) :
          (/\ ~aborted' /\ ev[e].live /\ ev[e].type = DRI2_SWAP_THROTTLE
           /\ Req(ev[e].event_data).divisor # 0
           /\ \E t \in vbl \ vbl' : t.info = e)
          => /\ hist'.copies = hist.copies /\ flipq' = flipq
             /\ ~ev'[e].live
             /\ IF dixLookupDrawable(Cur, ev[e].drawable_id)
                THEN OneSwapComplete(DRI2_BLIT_COMPLETE, ev[e].event_data)
                ELSE done' = done]_vars
  /\ [](\A e \in 1..Len(ev) :
          (ev[e].type # DRI2_WAITMSC /\ Req(ev[e].event_data).divisor # 0) =>
            /\ Notified(ev[e].event_data) <= 1
            /\ hist.copies[ev[e].event_data] + Submits(hist, e) <= 1)

\* a deferred flip went through: flipped at its vblank, completed and freed
C35_Witness ==
  \E e \in 1..Len(ev) :
    /\ ~ev[e].live /\ ev[e].type = DRI2_FLIP
    /\ Req(ev[e].event_data).divisor # 0
    /\ Submits(hist, e) = 1 /\ FlipEvents(hist, e) = 1
    /\ Notified(ev[e].event_data) = 1
    /\ \E i \in 1..Len(done) :
         done[i].type = DRI2_FLIP_COMPLETE /\ done[i].data = ev[e].event_data

\* ---- how a wait for a frame is resolved
\* the frame counts reported by DRI2WaitMSCComplete so far
MscCompletions == {i \in 1..Len(done) : done[i].type = "MSC"}

\* the live frame events of type DRI2_WAITMSC
PendingWaits == {e \in 1..Len(ev) : ev[e].live /\ ev[e].type = DRI2_WAITMSC}

\* C36: sna_dri_schedule_wait_msc returns TRUE and resolves the wait once.
\* When the drawable has no pipe, the counter query, the creation of the
\* frame event or the arming fails, or divisor is 0 and the counter has
\* reached target_msc, it calls DRI2WaitMSCComplete at once (with the counter
\* in the last case, with target_msc otherwise), does not block the client
\* and leaves no frame event and no vblank behind. Otherwise it arms one
\* vblank for one new DRI2_WAITMSC event and blocks the client; the callback
\* of that event calls DRI2WaitMSCComplete once with the frame of the event
\* (client and drawable present) and frees it. While no client or drawable
\* has gone, completions and pending waits add up to the requests made.
C36_WaitResolvedOnce ==
  /\ [][WaitRequestStep =>
          LET c == call'
              on == sna_dri_get_pipe(Cur, c.draw) # -1
              reached == /\ on /\ c.fail # "query" /\ Mask32(c.divisor) = 0
                         /\ c.cur >= Mask32(c.target)
          IN /\ c.ret
             /\ hist'.copies = hist.copies /\ flipq' = flipq
             /\ IF ~on \/ c.fail # "none" \/ reached
                THEN /\ OneMscComplete /\ ~c.blocked
                     /\ done'[Len(done')].frame =
                          (IF reached THEN c.cur ELSE Mask32(c.target))
                     /\ done'[Len(done')].client = ClientOf(c.draw)
                     /\ vbl' = vbl
                     /\ \A e \in 1..Len(ev') : ev'[e].live => e <= Len(ev)
                ELSE /\ done' = done /\ c.blocked
                     /\ Len(ev') = Len(ev) + 1
                     /\ ev'[Len(ev')].live
                     /\ ev'[Len(ev')].type = DRI2_WAITMSC
                     /\ Cardinality(vbl' \ vbl) = 1 /\ vbl \subseteq vbl'
                     /\ \A t \in vbl' \ vbl : t.info = Len(ev')]_vars
  /\ [][\A e \in 1..Len(ev) :
          WaitCallbackStep(e) =>
            /\ ~ev'[e].live /\ vbl' \subseteq vbl
            /\ IF ev[e].client # 0 /\ dixLookupDrawable(Cur, ev[e].drawable_id)
               THEN /\ OneMscComplete
                    /\ done'[Len(done')].frame = ev[e].frame
                    /\ done'[Len(done')].client = ev[e].client
               ELSE done' = done]_vars
  /\ []((nenv = 0 /\ ~aborted) =>
          Cardinality(MscCompletions) + Cardinality(PendingWaits) = hist.waits)

\* two waits, one completed at once and one by the callback of its event
C36_Witness ==
  /\ hist.waits = 2 /\ nenv = 0 /\ ~aborted
  /\ Cardinality(MscCompletions) = 2 /\ PendingWaits = {}
  /\ Len(ev) = 1 /\ ev[1].type = DRI2_WAITMSC /\ ~ev[1].live
  /\ \E i \in MscCompletions : done[i].frame = ev[1].frame

\* ---- postponement of a busy blit
\* the armed vblank events of the DRI2_SWAP and DRI2_SWAP_THROTTLE frame
\* events whose drawable is still there
ThrottleTokens ==
  {t \in vbl : /\ ev[t.info].live
               /\ ev[t.info].type \in {DRI2_SWAP, DRI2_SWAP_THROTTLE}
               /\ dixLookupDrawable(Cur, ev[t.info].drawable_id)}

\* what the vblank callback of token t leaves behind, the collaborators
\* answering "in"
Fired(t, in) ==
  sna_dri_vblank_handler([Cur EXCEPT !.vbl = @ \ {t}], t.info, in)

\* in the heap R the event of token t was postponed by one frame and nothing
\* else has happened to it
Postponed(R, t) ==
  LET e == t.info
  IN /\ R.ev[e].live /\ R.ev[e].type = DRI2_SWAP_THROTTLE
     /\ R.vbl = (vbl \ {t}) \cup {[info |-> e, type |-> "RELATIVE", sequence |-> 1]}
     /\ R.done = done
     /\ R.ev[e].chain = ev[e].chain
     /\ [b \in DOMAIN buf |-> R.buf[b].chain] = [b \in DOMAIN buf |-> buf[b].chain]
     /\ \A x \in 1..Len(ev) : x # e => R.ev[x] = ev[x]
     /\ R.buf = buf /\ R.bo = bo

\* in the heap R the event of token t has run to completion: it is freed, no
\* vblank is armed for it, and its request was signalled in this callback
\* unless it had been signalled when it was made (a pending or chained event)
Completed(R, t) ==
  LET e == t.info
      f == ev[e].front
  IN /\ ~R.ev[e].live
     /\ \A x \in R.vbl : x.info # e
     /\ IF ev[e].chain # 0
        THEN /\ R.buf[f].chain = ev[e].chain
             /\ Len(R.done) = Len(done) + 1
             /\ R.done[Len(R.done)].data = ev[ev[e].chain].event_data
        ELSE IF buf[f].chain = e
        THEN R.buf[f].chain = 0 /\ R.done = done
        ELSE /\ R.buf[f].chain = buf[f].chain
             /\ Len(R.done) = Len(done) + 1
             /\ R.done[Len(R.done)].data = ev[e].event_data
             /\ R.done[Len(R.done)].type = DRI2_BLIT_COMPLETE

\* C37: when the vblank of a DRI2_SWAP or DRI2_SWAP_THROTTLE event fires
\* while its blit is busy (info->bo is set and kgem_bo_is_busy after
\* kgem_retire) and the relative vblank can be armed again, the event is
\* postponed by one frame: not freed, nothing signalled, its place as pending
\* or chained event kept. When the blit is idle or the arming fails the event
\* runs to completion in the same callback. A DRI2_SWAP event copies once,
\* in its first callback; a DRI2_SWAP_THROTTLE event copies nothing for its
\* own request, so a deferred request is copied once however often it is
\* postponed.
C37_BusyBlitPostponed ==
  /\ ~aborted =>
       \A t \in ThrottleTokens :
         \A in \in VblankInputs(Cur, t.info) :
           LET e == t.info
               r == ev[e].event_data
               R == Fired(t, in)
           IN /\ R.hist.copies[r] =
                   hist.copies[r] + (IF ev[e].type = DRI2_SWAP THEN 1 ELSE 0)
              /\ IF R.ev[e].bo # 0 /\ in.busy /\ in.rearm
                 THEN Postponed(R, t)
                 ELSE Completed(R, t)
  /\ \A r \in 1..Len(hist.reqs) : Req(r).divisor # 0 => hist.copies[r] <= 1

\* a deferred blit that has been copied once and is postponed, nothing
\* signalled yet
C37_Witness ==
  \E e \in 1..Len(ev) :
    /\ ev[e].live /\ ev[e].type = DRI2_SWAP_THROTTLE /\ ev[e].bo # 0
    /\ [info |-> e, type |-> "RELATIVE", sequence |-> 1] \in vbl
    /\ Req(ev[e].event_data).divisor # 0
    /\ hist.copies[ev[e].event_data] = 1
    /\ done = <<>>

\* ---- a failed sna_dri_create_buffer
\* the step is a call of sna_dri_create_buffer that returns NULL and has
\* not released a stale handle of the drawable on its way
FailedCreateStep ==
  /\ xs'.n = xs.n + 1 /\ xs'.failed = xs.failed + 1
  /\ xs'.res = xs.res

\* C38: a call of sna_dri_create_buffer that fails (also after the pixmap
\* was marked by sna_pixmap_set_dri: the record cannot be allocated or the bo
\* cannot be named) returns NULL and leaves the flush counter and the pinned
\* flag of every pixmap, the flush watch and the reference count of every bo
\* as they were before the call.
C38_FailedCreateRestores ==
  [][FailedCreateStep =>
       /\ buf' = buf
       /\ \A b \in DOMAIN bo : bo'[b].refcnt = bo[b].refcnt
       /\ \A b \in DOMAIN bo' \ DOMAIN bo : bo'[b].refcnt = 0
       /\ xs'.flush = xs.flush /\ xs'.pinned = xs.pinned
       /\ xs'.watch = xs.watch]_vars

\* ---- the timestamps of a flip completion.  One DRI2_FLIP frame event with
\* its flips submitted, reduced to the fields the timestamps go through:
\* frame (the target frame), count (the completions still to come), the
\* cached fe_frame, fe_tv_sec, fe_tv_usec (zero from calloc), whether its
\* drawable is still there, and whether it has been freed.  xs holds that
\* event, the interrupts handled so far (seen) and the (msc, sec, usec) of
\* the DRI2SwapComplete calls made (out).
StampLimit == 5
MaxFrame == 7

Stamp(msc, sec, usec) == [msc |-> msc, sec |-> sec, usec |-> usec]

\* a variant that delivers whatever was cached
sna_dri_flip_event_timed_raw(x) ==
  [x EXCEPT !.out = IF x.drawable THEN Append(@, x.fe) ELSE @,
            !.live = FALSE]

\* sna_dri_flip_event, case DRI2_FLIP; fe_frame and frame are unsigned
sna_dri_flip_event_timed(x) ==
  LET failure == /\ x.fe.msc < x.frame
                 /\ Mask32(x.frame - x.fe.msc) < StampLimit
      fe == IF x.drawable /\ failure THEN Stamp(0, 0, 0) ELSE x.fe
  IN [x EXCEPT !.fe = fe,
               !.out = IF x.drawable THEN Append(@, fe) ELSE @,
               !.live = FALSE]

\* sna_dri_page_flip_handler; event.low is bit 0 of event->user_data
sna_dri_page_flip_handler_timed(x, event) ==
  LET x1 == IF event.low
            THEN [x EXCEPT !.fe = Stamp(event.sequence, event.tv_sec,
                                        event.tv_usec)]
            ELSE x
      x2 == [x1 EXCEPT !.count = @ - 1, !.seen = Append(@, event)]
  IN IF x2.count # 0 THEN x2 ELSE sna_dri_flip_event_timed(x2)

InitStamp ==
  /\ sna = [vtSema |-> TRUE, no_flip |-> FALSE, no_wait |-> FALSE,
            shadow_active |-> FALSE, front |-> SnaFront]
  /\ cfg = [d \in Drawables |-> Config("clip", d)]
  /\ pix = [p \in 1..(NumDrawables + 1) |-> Pixmap(PixBo(p))]
  /\ bo = InitBo(cfg)
  /\ buf = [b \in 1..(2 * NumDrawables) |->
              InitBuf((b + 1) \div 2, cfg[(b + 1) \div 2])[b]]
  /\ Idle
  /\ \E frame \in 0..MaxFrame, count \in 1..MaxCrtc, drawable \in BOOLEAN :
       xs = [frame |-> frame, count |-> count, drawable |-> drawable,
             fe |-> Stamp(0, 0, 0), live |-> TRUE, seen |-> <<>>,
             out |-> <<>>]

\* the kernel delivers one flip completion of the frame event
FlipInterrupt(event) ==
  /\ xs.live /\ xs.count > 0
  /\ xs' = sna_dri_page_flip_handler_timed(xs, event)
  /\ UNCHANGED <<sna, cfg, alive, clients, pix, bo, buf, ev, flip_pending,
                 flipq, vbl, done, nreq, call, hist, assert_ok, aborted, nenv>>

NextStamp ==
  \E event \in [low : BOOLEAN, sequence : 0..(MaxFrame + 1) \cup {MscModulus - 1},
                tv_sec : {1, 2}, tv_usec : {3}] :
    FlipInterrupt(event)

SpecStamp == InitStamp /\ [][NextStamp]_vars

\* the values of the last interrupt handled whose token had the low bit set
Cached ==
  LET lows == {i \in 1..Len(xs.seen) : xs.seen[i].low}
      last == CHOOSE i \in lows : \A j \in lows : j <= i
  IN IF lows = {} THEN Stamp(0, 0, 0)
     ELSE Stamp(xs.seen[last].sequence, xs.seen[last].tv_sec,
                xs.seen[last].tv_usec)

\* C39: the flip completion whose token has the low bit set supplies the
\* (msc, sec, usec) cached for delivery. When the last completion of a
\* DRI2_FLIP event has been handled and its drawable is there, one
\* notification has been made: with msc = sec = usec = 0 when the cached msc
\* is smaller than the target frame by fewer than 5 frames, with the cached
\* values unchanged otherwise. Before that, and without the drawable, none
\* is made.
C39_FlipTimestamps ==
  /\ xs.fe = (IF xs.out # <<>> THEN xs.out[1] ELSE Cached)
  /\ xs.live <=> xs.count > 0
  /\ IF xs.count = 0 /\ xs.drawable
     THEN xs.out = << IF Cached.msc < xs.frame /\ xs.frame - Cached.msc < 5
                      THEN Stamp(0, 0, 0) ELSE Cached >>
     ELSE xs.out = <<>>

\* a completion three frames short of its target was reported as a failure,
\* the interrupt with the low bit having come first of two
C39_Witness ==
  /\ xs.count = 0 /\ xs.drawable /\ Len(xs.seen) = 2
  /\ xs.seen[1].low /\ ~xs.seen[2].low
  /\ xs.seen[1].sequence + 3 = xs.frame
  /\ xs.out = <<Stamp(0, 0, 0)>>

====
